---- MODULE Spec2Model ----
(***************************************************************************)
(* Model of the Brandwatch API SDK resource layer.                         *)
(*                                                                         *)
(*   - BWResource (src/src/bcr/bwresources.py): the id -> name catalog of  *)
(*     one resource kind, reference resolution (get_resource_id,           *)
(*     check_resource_exists) and the create-or-update loop (upload_all),  *)
(*     with the per-kind overrides of BWQueries and BWRules and the        *)
(*     per-kind _fill_data.                                                *)
(*   - BWData.get_mentions (src/bwdata.py): the paged retrieval loop.      *)
(*                                                                         *)
(* Python values of mixed type are tagged records, so that an int id, the  *)
(* string "", None and a raised exception stay distinct.  The code is      *)
(* single-threaded: a call runs from "idle" to "returned" (upload_all and  *)
(* get_mentions one loop iteration at a time) before the next one starts.  *)
(* The server is the collaborator behind project.get/put/post: a PUT sets  *)
(* the name of the addressed id, a POST adds the name under an unused id,  *)
(* and names may repeat.                                                   *)
(***************************************************************************)
EXTENDS Integers, Sequences, FiniteSets, TLC

VARIABLES
    kind,         \* resource kind of the catalog instance (its class)
    server,       \* the server's listing for that kind: id -> name
    names,        \* BWResource.names, the cached id -> name mapping
    pc,           \* "idle": no call, "upload" / "delete": in the loop of
                  \* upload_all / delete_all, "returned"
    call,         \* the call that returned last, with its arguments
    old,          \* names and server as they were when that call started
    ret,          \* what the call returned or raised
    reqs,         \* the requests the call issued, in order
    item,         \* loop local: index of the next item of data_list / names
    resources,    \* upload_all local: the resources dict
    pages,        \* data server: the page the server returns for each index
    max_pages,    \* get_mentions argument: <<>> for None, <<m>> for a limit
    params,       \* get_mentions local: the request parameters (page, pageSize)
    all_mentions, \* get_mentions local: the records accumulated so far
    fetched,      \* page indices requested by the running get_mentions, in order
    dpc,          \* position of get_mentions: "idle", "loop", "done", "raised"
    ids,          \* BWCategories.ids: category name -> id, multiple, children
    categories,   \* the server's listing of the project's categories
    tags,         \* names of the BWTags instance a translator holds (self.tags)
    authorlists,  \* the server's listing of the project's author lists
    translated,   \* what _name_to_id returned or raised
    token_file,   \* the characters of the credentials file
    cred          \* the last operation on the credentials store, its outcome,
                  \* and the tokens stored so far, in order

catalogVars == <<kind, server, names, pc, call, old, ret, reqs, item, resources>>
dataVars == <<pages, max_pages, params, all_mentions, fetched, dpc>>
treeVars == <<ids, categories>>
transVars == <<tags, authorlists, translated>>
credVars == <<token_file, cred>>
vars == <<kind, server, names, pc, call, old, ret, reqs, item, resources,
          pages, max_pages, params, all_mentions, fetched, dpc,
          ids, categories, tags, authorlists, translated, token_file, cred>>

----------------------------------------------------------------------------
(* Bounds *)

MaxId == 2
MaxBatch == 2
MaxFaultBatch == 3  \* longest batch sent through a transport that may refuse
MaxMembers == 2     \* queries in a group, at most
MaxCats == 2        \* categories in the listing of a project, at most
MaxSetting == 2     \* names in a list a filter is given, at most
MaxFilters == 2     \* filters a caller passes to one retrieval, at most
MaxCatBatch == 1    \* items in one call of BWCategories.upload_all / delete_all
MaxPageLen == 2     \* records per page the data server returns, at most
MaxPagesLen == 3    \* indices for which the data server is given a page
MaxLimit == 3       \* largest max_pages a caller passes
MaxStart == 1       \* largest page index a caller passes as the page keyword

Ids == 0..MaxId

(* Names the server may hold; "1" is a name that also reads as an id. *)
CatalogNames == {"a", "b", "1"}

(* Strings a caller may pass as a reference. *)
RefStrings == CatalogNames \cup {"", "0", "01", "zz"}

Kinds == {"queries", "groups", "tags", "authorlists", "sitelists",
          "locationlists", "rules", "signals"}

----------------------------------------------------------------------------
(* Python values *)

EmptyMap == [n \in {} |-> 0]

RefNone == [t |-> "none", i |-> 0, s |-> ""]
RefInt(n) == [t |-> "int", i |-> n, s |-> ""]
RefStr(x) == [t |-> "str", i |-> 0, s |-> x]

Refs == {RefNone} \cup {RefInt(n) : n \in 0..(MaxId + 1)}
                  \cup {RefStr(x) : x \in RefStrings}

(* Outcomes of a call: a returned value or a raised exception. *)
RetId(n) == [t |-> "id", i |-> n, ids |-> {}, b |-> FALSE, map |-> EmptyMap]
RetEmpty == [t |-> "empty", i |-> 0, ids |-> {}, b |-> FALSE, map |-> EmptyMap]
RetNone == [t |-> "None", i |-> 0, ids |-> {}, b |-> FALSE, map |-> EmptyMap]
RetBool(x) == [t |-> "bool", i |-> 0, ids |-> {}, b |-> x, map |-> EmptyMap]
RetMap(m) == [t |-> "map", i |-> 0, ids |-> {}, b |-> FALSE, map |-> m]
RaiseKeyError == [t |-> "KeyError", i |-> 0, ids |-> {}, b |-> FALSE, map |-> EmptyMap]
RaiseRuntimeError ==
    [t |-> "RuntimeError", i |-> 0, ids |-> {}, b |-> FALSE, map |-> EmptyMap]
RaiseAttributeError ==
    [t |-> "AttributeError", i |-> 0, ids |-> {}, b |-> FALSE, map |-> EmptyMap]
AmbiguityError(entries) ==
    [t |-> "AmbiguityError", i |-> 0, ids |-> entries, b |-> FALSE, map |-> EmptyMap]
NoRet == [t |-> "none", i |-> 0, ids |-> {}, b |-> FALSE, map |-> EmptyMap]

RaiseValueError ==
    [t |-> "ValueError", i |-> 0, ids |-> {}, b |-> FALSE, map |-> EmptyMap]

IsRaise(r) == r.t \in {"KeyError", "AmbiguityError", "RuntimeError", "AttributeError",
                       "ValueError"}

(* Python truthiness of a reference: None, 0 and "" are falsy. *)
Falsy(resource) ==
    \/ resource.t = "none"
    \/ resource.t = "int" /\ resource.i = 0
    \/ resource.t = "str" /\ resource.s = ""

(* int(str): the decimal strings of the model and what they parse to;    *)
(* every other string raises ValueError.                                  *)
DecimalStrings == <<"0", "1", "2", "3", "4", "5">>

CanParseInt(s) == s = "01" \/ \E n \in 1..Len(DecimalStrings) : DecimalStrings[n] = s

IntOf(s) ==
    IF s = "01" THEN 1
    ELSE (CHOOSE n \in 1..Len(DecimalStrings) : DecimalStrings[n] = s) - 1

(* The values a filter is given and translated to: an int, a string, a     *)
(* list (of ints, strings and None), a dict with one key (the parent       *)
(* category) whose value is a list of child names, None, or an exception.  *)
PyValue(t, i, x, l, p) == [t |-> t, i |-> i, s |-> x, l |-> l, p |-> p]
SetInt(n) == PyValue("int", n, "", <<>>, "")
SetStr(x) == PyValue("str", 0, x, <<>>, "")
SetList(l) == PyValue("list", 0, "", l, "")
SetDict(parent, children) == PyValue("dict", 0, "", children, parent)
SetNone == PyValue("None", 0, "", <<>>, "")
SetRaise(error) == PyValue(error, 0, "", <<>>, "")
NoSetting == PyValue("none", 0, "", <<>>, "")

----------------------------------------------------------------------------
(* BWResource.get_resource_id and check_resource_exists *)

(* Lines 94-99: the tail shared by the int branch and the int(str) branch. *)
CheckKnownId(nm, resource_id) ==
    IF resource_id \notin DOMAIN nm THEN RaiseKeyError
    ELSE IF resource_id # 0 THEN RetId(resource_id)
    ELSE RetNone

(* get_resource_id that resolves a duplicated name to its first match. *)
get_resource_id_first_match(nm, resource) ==
    IF Falsy(resource) THEN RetEmpty
    ELSE IF resource.t = "int" THEN CheckKnownId(nm, resource.i)
    ELSE LET entries == {resource_id \in DOMAIN nm : nm[resource_id] = resource.s}
         IN  IF entries # {}
             THEN RetId(CHOOSE e \in entries : \A f \in entries : e <= f)
             ELSE IF ~CanParseInt(resource.s) THEN RaiseKeyError
             ELSE CheckKnownId(nm, IntOf(resource.s))

(* get_resource_id that reads a numeric-looking string as an id before it  *)
(* looks for the name.                                                     *)
get_resource_id_id_first(nm, resource) ==
    IF Falsy(resource) THEN RetEmpty
    ELSE IF resource.t = "int" THEN CheckKnownId(nm, resource.i)
    ELSE IF CanParseInt(resource.s) /\ IntOf(resource.s) \in DOMAIN nm
    THEN CheckKnownId(nm, IntOf(resource.s))
    ELSE LET entries == {resource_id \in DOMAIN nm : nm[resource_id] = resource.s}
         IN  IF Cardinality(entries) > 1 THEN AmbiguityError(entries)
             ELSE IF entries # {} THEN RetId(CHOOSE e \in entries : TRUE)
             ELSE RaiseKeyError

get_resource_id(nm, resource) ==
    IF Falsy(resource) THEN RetEmpty
    ELSE IF resource.t = "int" THEN CheckKnownId(nm, resource.i)
    ELSE LET entries == {resource_id \in DOMAIN nm : nm[resource_id] = resource.s}
         IN  IF Cardinality(entries) > 1 THEN AmbiguityError(entries)
             ELSE IF entries # {} THEN RetId(CHOOSE e \in entries : TRUE)
             ELSE IF ~CanParseInt(resource.s) THEN RaiseKeyError
             ELSE CheckKnownId(nm, IntOf(resource.s))

(* check_resource_exists that catches every error of get_resource_id. *)
check_resource_exists_catch_all(nm, resource) ==
    IF IsRaise(get_resource_id(nm, resource)) THEN RetBool(FALSE) ELSE RetBool(TRUE)

check_resource_exists(nm, resource) ==
    LET r == get_resource_id(nm, resource)
    IN  IF r.t = "AmbiguityError" THEN r
        ELSE IF r.t = "KeyError" THEN RetBool(FALSE)
        ELSE RetBool(TRUE)

----------------------------------------------------------------------------
(* The server behind project.get / put / post, for one resource kind.      *)
(* A response is <<>> when the body carries a non-empty error field, which  *)
(* bare_request turns into RuntimeError.                                    *)

(* A request: the verb, the endpoint ("resource" is the kind's own general  *)
(* or specific endpoint), addr = <<id>> when an id follows the endpoint,    *)
(* and the payload's name and id fields when there is a payload.            *)
RequestTo(verb, endpoint, addr, pname, pid) ==
    [verb |-> verb, endpoint |-> endpoint, addr |-> addr, pname |-> pname,
     pid |-> pid]

Request(verb, addr, pname, pid) == RequestTo(verb, "resource", addr, pname, pid)

ListingRequest == Request("GET", <<>>, <<>>, <<>>)

(* What the server sends back, as bare_request looks at it: whether        *)
(* response.json() parses ("ok"), fails on an empty or non-JSON text with   *)
(* "Expecting value: line 1 column 1 (char 0)" ("no_value") or fails with   *)
(* another ValueError ("other"); and the "errors" field of a parsed body:   *)
(* <<>> when the body has none, else <<n>>, the number of errors it lists.  *)
Response(parse, errors) == [parse |-> parse, errors |-> errors]
OkResponse == Response("ok", <<>>)
Responses == {Response("ok", errors) : errors \in {<<>>, <<0>>, <<1>>}}
             \cup {Response("no_value", <<>>), Response("other", <<>>)}

(* A transport that raises whenever the body has an "errors" field. *)
bare_request_any_errors_field(response, json) ==
    IF response.parse = "no_value" THEN RaiseRuntimeError
    ELSE IF response.parse = "other" THEN RaiseValueError
    ELSE IF response.errors # <<>> THEN RaiseRuntimeError
    ELSE json

(* BWUser.bare_request, lines 213-236: RuntimeError(response.text) for a   *)
(* body that is not JSON, any other ValueError re-raised, RuntimeError of   *)
(* the errors when "errors" is in the body and is truthy, else the parsed   *)
(* body json.                                                              *)
bare_request(response, json) ==
    IF response.parse = "no_value" THEN RaiseRuntimeError
    ELSE IF response.parse = "other" THEN RaiseValueError
    ELSE IF response.errors # <<>> /\ response.errors[1] > 0 THEN RaiseRuntimeError
    ELSE json

(* The transport raised: bare_request found a non-empty "errors" field. *)
Refused(srv) == [srv |-> srv, response |-> <<>>]

(* The id the server gives a new resource: the smallest one not in use. *)
FreshId(srv) == CHOOSE n \in 0..(MaxId + MaxBatch + 1) :
                    /\ n \notin DOMAIN srv
                    /\ \A m \in 0..(n - 1) : m \in DOMAIN srv

MapPut(m, k, v) == [x \in DOMAIN m \cup {k} |-> IF x = k THEN v ELSE m[x]]

(* PUT <specific_endpoint>/<str(resource_id)> with a payload name. *)
ServerPut(srv, addr, pname) ==
    IF addr.t = "id" /\ addr.i \in DOMAIN srv
    THEN [srv |-> [srv EXCEPT ![addr.i] = pname],
          response |-> <<[name |-> pname, id |-> addr.i]>>]
    ELSE Refused(srv)

(* DELETE <specific_endpoint>/<str(resource_id)>. *)
ServerDelete(srv, addr) ==
    IF addr.t = "id" /\ addr.i \in DOMAIN srv
    THEN [srv |-> [x \in DOMAIN srv \ {addr.i} |-> srv[x]],
          response |-> <<[name |-> srv[addr.i], id |-> addr.i]>>]
    ELSE Refused(srv)

(* GET <specific_endpoint>/<str(resource_id)>: the resource's information. *)
ServerGet(srv, addr) ==
    IF addr.t = "id" /\ addr.i \in DOMAIN srv
    THEN [srv |-> srv, response |-> <<[name |-> srv[addr.i], id |-> addr.i]>>]
    ELSE Refused(srv)

(* POST <specific_endpoint> with a payload name. *)
ServerPost(srv, pname) ==
    [srv |-> MapPut(srv, FreshId(srv), pname),
     response |-> <<[name |-> pname, id |-> FreshId(srv)]>>]

----------------------------------------------------------------------------
(* _fill_data: the name and id fields of the payload, per kind.            *)
(* Result: err = <<exception>> when it raises, else pid = <<id value>> when *)
(* the payload has an "id" field, and pname the payload's "name".          *)

Filled(pid, pname) == [err |-> <<>>, pid |-> pid, pname |-> pname]
FillRaise(e) == [err |-> <<e>>, pid |-> <<>>, pname |-> ""]

(* A payload that keeps the old name. *)
PayloadName_keep(data) == data.name

PayloadName(data) ==
    IF data.new_name # <<>> THEN data.new_name[1] ELSE data.name

(* BWTags._fill_data: the id only goes in when the item renames. *)
fill_data_tags(nm, data) ==
    IF data.new_name # <<>>
    THEN LET r == get_resource_id(nm, RefStr(data.name))
         IN  IF IsRaise(r) THEN FillRaise(r)
             ELSE Filled(<<r>>, data.new_name[1])
    ELSE Filled(<<>>, data.name)

(* BWQueries, BWGroups, the three list kinds, BWRules, BWSignals. *)
fill_data_resource(nm, data) ==
    LET e == check_resource_exists(nm, RefStr(data.name))
    IN  IF IsRaise(e) THEN FillRaise(e)
        ELSE IF e.b THEN Filled(<<get_resource_id(nm, RefStr(data.name))>>,
                                PayloadName(data))
        ELSE Filled(<<>>, PayloadName(data))

(* The first lines of each _fill_data: the item must have a name and the   *)
(* kind's other required fields (booleanQuery; queries; queries and        *)
(* subscribers; ruleAction; authors, domains or locations), else KeyError. *)
(* BWTags requires the name only, and builds its message from              *)
(* self.parameter, an attribute that BWTags does not have.                 *)
fill_data_required(k, data) ==
    IF k = "tags"
    THEN IF data.lacks = "name" THEN <<RaiseAttributeError>> ELSE <<>>
    ELSE IF data.lacks # "none" THEN <<RaiseKeyError>> ELSE <<>>

fill_data(k, nm, data) ==
    IF fill_data_required(k, data) # <<>>
    THEN FillRaise(fill_data_required(k, data)[1])
    ELSE IF k = "tags" THEN fill_data_tags(nm, data)
    ELSE fill_data_resource(nm, data)

(* The reads a _fill_data that got through issues after the name and id:   *)
(* validate_query_search for queries, get_self for groups and the lists.   *)
fill_data_reads(k) ==
    IF k = "queries" THEN <<RequestTo("GET", "query-validation", <<>>, <<>>, <<>>)>>
    ELSE IF k \in {"groups", "authorlists", "sitelists", "locationlists"}
    THEN <<RequestTo("GET", "me", <<>>, <<>>, <<>>)>>
    ELSE <<>>

----------------------------------------------------------------------------
(* BWResource.upload_all *)

(* Loop state: the server, the requests issued, the resources dict, and    *)
(* err = <<exception>> when the iteration raised.                          *)
UploadState(srv, rq, res, err) ==
    [srv |-> srv, reqs |-> rq, resources |-> res, err |-> err]

(* A loop that goes on to the next item when the transport raised. *)
RecordResponse_continue(st, request, answer) ==
    IF answer.response = <<>>
    THEN UploadState(st.srv, Append(st.reqs, request), st.resources, <<>>)
    ELSE UploadState(answer.srv, Append(st.reqs, request),
                     MapPut(st.resources, answer.response[1].name,
                            answer.response[1].id),
                     <<>>)

(* Lines 180-181: record the response, or raise when the transport did. *)
RecordResponse(st, request, answer) ==
    IF answer.response = <<>>
    THEN UploadState(st.srv, Append(st.reqs, request), st.resources,
                     <<RaiseRuntimeError>>)
    ELSE UploadState(answer.srv, Append(st.reqs, request),
                     MapPut(st.resources, answer.response[1].name,
                            answer.response[1].id),
                     <<>>)

(* One iteration of the for loop, lines 160-181; refuses: the transport   *)
(* raises on this item's put or post.                                      *)
UploadItem(k, nm, data, create_only, modify_only, refuses, st) ==
    LET filled_data == fill_data(k, nm, data)
        exists == check_resource_exists(nm, RefStr(data.name))
        resource_id == get_resource_id(nm, RefStr(data.name))
        read == [st EXCEPT !.reqs = st.reqs \o fill_data_reads(k)]
    IN  IF filled_data.err # <<>> THEN [st EXCEPT !.err = filled_data.err]
        ELSE IF IsRaise(exists) THEN [read EXCEPT !.err = <<exists>>]
        ELSE IF exists.b /\ ~create_only
        THEN RecordResponse(read,
                 Request("PUT", <<resource_id>>, <<filled_data.pname>>,
                         filled_data.pid),
                 IF refuses THEN Refused(st.srv)
                 ELSE ServerPut(st.srv, resource_id, filled_data.pname))
        ELSE IF ~exists.b /\ ~modify_only
        THEN RecordResponse(read,
                 Request("POST", <<>>, <<filled_data.pname>>, filled_data.pid),
                 IF refuses THEN Refused(st.srv)
                 ELSE ServerPost(st.srv, filled_data.pname))
        ELSE read

(* BWQueries.upload_all and BWRules.upload_all call BWResource.upload_all  *)
(* with create_only=False, modify_only=False; the other kinds inherit it.  *)
PassedFlag(k, flag) == IF k \in {"queries", "rules"} THEN FALSE ELSE flag

(* What upload_all returns: the resources dict; BWRules.upload_all has no  *)
(* return statement.                                                       *)
UploadResult(k, res) == IF k = "rules" THEN RetNone ELSE RetMap(res)

(* BWRules.upload_all, lines 1323-1327: after the base method returned (and *)
(* reloaded), one bulk action per rule with a true backfill, addressed to   *)
(* rules_to_id[rule["name"]]; a name that is not a key of that dict raises  *)
(* KeyError.                                                                *)
WantsBackfill(data) == data.backfill

Backfill(data_list, rules_to_id) ==
    LET rules == SelectSeq(data_list, WantsBackfill)
        unknown == {n \in 1..Len(rules) : rules[n].name \notin DOMAIN rules_to_id}
        stop == IF unknown = {} THEN Len(rules) + 1
                ELSE CHOOSE n \in unknown : \A m \in unknown : n <= m
    IN  [reqs |-> [n \in 1..(stop - 1) |->
                      RequestTo("POST", "bulkactions/rule",
                                <<RetId(rules_to_id[rules[n].name])>>, <<>>, <<>>)],
         err |-> IF unknown = {} THEN <<>> ELSE <<RaiseKeyError>>]

(* The items of a batch for which the loop would issue a create. *)
Creates(nm, data_list) ==
    {n \in 1..Len(data_list) :
        check_resource_exists(nm, RefStr(data_list[n].name)) = RetBool(FALSE)}

----------------------------------------------------------------------------
(* State *)

NoCall == [op |-> "none", ref |-> RefNone, first |-> <<>>, data_list |-> <<>>,
           create_only |-> FALSE, modify_only |-> FALSE, fault |-> 0,
           refs |-> <<>>, new_name |-> "", members |-> {}, listing |-> <<>>,
           startDate |-> FALSE, kwpage |-> <<>>,
           attribute |-> "", setting |-> NoSetting, data |-> <<>>,
           overwrite_children |-> FALSE, answers |-> <<>>]

NoOld == [names |-> EmptyMap, server |-> EmptyMap]

(* Items of an upload batch: a name, an optional new_name, which required  *)
(* field the item lacks ("none", "name", or "field" for the kind's other   *)
(* required field), and the backfill flag that BWRules.upload_all reads.   *)
DataItem(name, new_name, lacks, backfill) ==
    [name |-> name, new_name |-> new_name, lacks |-> lacks, backfill |-> backfill]

(* Complete items without backfill. *)
UploadNames == {"a", "1"}
DataItems == {DataItem(name, new_name, "none", FALSE) :
                 name \in UploadNames, new_name \in {<<>>, <<"b">>}}
DataLists == UNION {[1..n -> DataItems] : n \in 0..MaxBatch}

(* Items for the batches with incomplete items, backfill and a transport  *)
(* that may refuse a request.                                              *)
FaultItems == {DataItem("a", <<>>, "none", FALSE), DataItem("a", <<"b">>, "none", TRUE),
               DataItem("1", <<>>, "none", TRUE), DataItem("a", <<>>, "name", FALSE),
               DataItem("a", <<>>, "field", FALSE)}
FaultLists == UNION {[1..n -> FaultItems] : n \in 0..MaxFaultBatch}

Catalogs == UNION {[S -> CatalogNames] : S \in SUBSET Ids}

NoParams == [page |-> 0, pageSize |-> 0, resourceId |-> RefNone]

DataIdle ==
    /\ pages = <<>>
    /\ max_pages = <<>>
    /\ params = NoParams
    /\ all_mentions = <<>>
    /\ fetched = <<>>
    /\ dpc = "idle"

(* No BWCategories instance. *)
TreeIdle ==
    /\ ids = EmptyMap
    /\ categories = <<>>

(* Characters: a string of the credentials store is a sequence of them. *)
TAB == "\t"
NL == "\n"

(* No operation on the credentials store; the file is empty, as            *)
(* _ensure_file_exists creates it.                                         *)
NoCred == [op |-> "none", username |-> <<>>, token |-> <<>>,
           result |-> [t |-> "none", v |-> <<>>], stored |-> <<>>]

CredIdle ==
    /\ token_file = <<>>
    /\ cred = NoCred

(* No translation has been asked for. *)
TransIdle ==
    /\ tags = EmptyMap
    /\ authorlists = EmptyMap
    /\ translated = NoSetting

(* BWResource.__init__: names = {} and then reload(). *)
Init ==
    /\ kind \in Kinds
    /\ server \in Catalogs
    /\ names = server
    /\ pc = "idle"
    /\ call = NoCall
    /\ old = NoOld
    /\ ret = NoRet
    /\ reqs = <<>>
    /\ item = 0
    /\ resources = EmptyMap
    /\ DataIdle
    /\ TreeIdle
    /\ TransIdle
    /\ CredIdle

GetResourceId ==
    /\ pc = "idle"
    /\ \E resource \in Refs :
        /\ call' = [NoCall EXCEPT !.op = "get_resource_id", !.ref = resource]
        /\ ret' = get_resource_id(names, resource)
    /\ old' = [names |-> names, server |-> server]
    /\ pc' = "returned"
    /\ UNCHANGED <<kind, server, names, reqs, item, resources>>
    /\ UNCHANGED dataVars
    /\ UNCHANGED treeVars
    /\ UNCHANGED transVars
    /\ UNCHANGED credVars

(* The caller passes the id it got back to get_resource_id again. *)
GetResourceIdOfResult ==
    /\ pc = "returned"
    /\ call.op = "get_resource_id"
    /\ ret.t = "id"
    /\ call' = [call EXCEPT !.op = "get_resource_id_of_result", !.first = <<ret>>]
    /\ ret' = get_resource_id(names, RefInt(ret.i))
    /\ UNCHANGED <<kind, server, names, pc, old, reqs, item, resources>>
    /\ UNCHANGED treeVars
    /\ UNCHANGED transVars
    /\ UNCHANGED credVars
    /\ UNCHANGED dataVars
    /\ UNCHANGED treeVars
    /\ UNCHANGED transVars
    /\ UNCHANGED credVars

CheckResourceExists ==
    /\ pc = "idle"
    /\ \E resource \in Refs :
        /\ call' = [NoCall EXCEPT !.op = "check_resource_exists", !.ref = resource]
        /\ ret' = check_resource_exists(names, resource)
    /\ old' = [names |-> names, server |-> server]
    /\ pc' = "returned"
    /\ UNCHANGED <<kind, server, names, reqs, item, resources>>
    /\ UNCHANGED dataVars
    /\ UNCHANGED treeVars
    /\ UNCHANGED transVars
    /\ UNCHANGED credVars

(* BWResource.get, lines 128-129: one GET of specific_endpoint + "/" +     *)
(* str(id_num), where id_num is what get_resource_id returned: an id, ""   *)
(* (the address of the listing) or None (the address ".../None").  Result: *)
(* the requests issued and what the caller gets.                           *)
ListingInfo(srv) == [t |-> "listing", i |-> 0, ids |-> DOMAIN srv, b |-> FALSE, map |-> srv]
ResourceInfo(response) ==
    [t |-> "info", i |-> response.id, ids |-> {}, b |-> FALSE,
     map |-> MapPut(EmptyMap, response.id, response.name)]

get(nm, srv, name) ==
    LET id_num == get_resource_id(nm, name)
        answer == ServerGet(srv, id_num)
    IN  IF IsRaise(id_num) THEN [reqs |-> <<>>, ret |-> id_num]
        ELSE IF id_num = RetEmpty
        THEN [reqs |-> <<ListingRequest>>, ret |-> ListingInfo(srv)]
        ELSE [reqs |-> <<Request("GET", <<id_num>>, <<>>, <<>>)>>,
              ret |-> IF answer.response = <<>> THEN RaiseRuntimeError
                      ELSE ResourceInfo(answer.response[1])]

Get ==
    /\ pc = "idle"
    /\ \E name \in Refs :
        /\ call' = [NoCall EXCEPT !.op = "get", !.ref = name]
        /\ reqs' = get(names, server, name).reqs
        /\ ret' = get(names, server, name).ret
    /\ old' = [names |-> names, server |-> server]
    /\ pc' = "returned"
    /\ UNCHANGED <<kind, server, names, item, resources>>
    /\ UNCHANGED dataVars
    /\ UNCHANGED treeVars
    /\ UNCHANGED transVars
    /\ UNCHANGED credVars

(* upload_all is called: line 158, resources = {}.  The batch comes from   *)
(* lists; fault is the item on whose put or post the transport raises, the *)
(* batch length plus one when it raises on the closing listing request, 0  *)
(* when it raises on none.                                                 *)
UploadAllCallOf(lists, faults) ==
    /\ pc = "idle"
    /\ \E data_list \in lists, create_only \in BOOLEAN, modify_only \in BOOLEAN,
          fault \in faults :
        /\ fault <= Len(data_list) + 1
        /\ Cardinality(DOMAIN server) + Cardinality(Creates(names, data_list))
               <= Cardinality(Ids)
        /\ call' = [NoCall EXCEPT !.op = "upload_all", !.data_list = data_list,
                                   !.create_only = create_only,
                                   !.modify_only = modify_only,
                                   !.fault = fault]
    /\ old' = [names |-> names, server |-> server]
    /\ pc' = "upload"
    /\ item' = 1
    /\ resources' = EmptyMap
    /\ reqs' = <<>>
    /\ UNCHANGED <<kind, server, names, ret>>
    /\ UNCHANGED dataVars
    /\ UNCHANGED treeVars
    /\ UNCHANGED transVars
    /\ UNCHANGED credVars

(* The response to the put or post of item n of the call: the one the     *)
(* call was given, else a body without errors.                             *)
AnswerTo(c, n) == IF c.answers = <<>> THEN OkResponse ELSE c.answers[n]

(* Complete items and a transport that answers every request. *)
UploadAllCall == UploadAllCallOf(DataLists, {0})

(* Batches with incomplete items and backfill, and a transport that may   *)
(* refuse one request.                                                     *)
UploadAllFault == UploadAllCallOf(FaultLists, 0..(MaxFaultBatch + 1))

(* One iteration of the for loop; an exception leaves upload_all at once,  *)
(* without the reload.                                                     *)
UploadAllItem ==
    /\ pc = "upload"
    /\ item <= Len(call.data_list)
    /\ LET answer == bare_request(AnswerTo(call, item), RetNone)
           out == UploadItem(kind, names, call.data_list[item],
                             PassedFlag(kind, call.create_only),
                             PassedFlag(kind, call.modify_only),
                             call.fault = item \/ IsRaise(answer),
                             UploadState(server, reqs, resources, <<>>))
       IN  /\ server' = out.srv
           /\ reqs' = out.reqs
           /\ resources' = out.resources
           /\ IF out.err # <<>>
              THEN /\ pc' = "returned"
                   /\ ret' = IF out.err[1] = RaiseRuntimeError /\ IsRaise(answer)
                             THEN answer ELSE out.err[1]
                   /\ UNCHANGED item
              ELSE /\ item' = item + 1
                   /\ UNCHANGED <<pc, ret>>
    /\ UNCHANGED <<kind, names, call, old>>
    /\ UNCHANGED dataVars
    /\ UNCHANGED treeVars
    /\ UNCHANGED transVars
    /\ UNCHANGED credVars

(* What the caller of upload_all gets: rename discards the mapping. *)
UploadOutcome(k, op, res) == IF op = "rename" THEN RetNone ELSE UploadResult(k, res)

(* An upload_all that returns the mapping without reloading. *)
UploadAllReturn_no_reload ==
    /\ pc = "upload"
    /\ item > Len(call.data_list)
    /\ ret' = UploadOutcome(kind, call.op, resources)
    /\ pc' = "returned"
    /\ UNCHANGED <<kind, server, names, call, old, reqs, item, resources>>
    /\ UNCHANGED dataVars
    /\ UNCHANGED treeVars
    /\ UNCHANGED transVars
    /\ UNCHANGED credVars

(* The loop is over: lines 183-184, reload() and return resources; for    *)
(* BWRules the backfill requests follow.  When the transport refuses the   *)
(* listing request, reload raises and names stays as it was.               *)
UploadAllReturn ==
    /\ pc = "upload"
    /\ item > Len(call.data_list)
    /\ IF call.fault = item
       THEN /\ reqs' = Append(reqs, ListingRequest)
            /\ ret' = RaiseRuntimeError
            /\ UNCHANGED names
       ELSE LET backfill == IF kind = "rules"
                            THEN Backfill(call.data_list, resources)
                            ELSE [reqs |-> <<>>, err |-> <<>>]
            IN  /\ names' = server
                /\ reqs' = Append(reqs, ListingRequest) \o backfill.reqs
                /\ ret' = IF backfill.err # <<>> THEN backfill.err[1]
                          ELSE UploadOutcome(kind, call.op, resources)
    /\ pc' = "returned"
    /\ UNCHANGED <<kind, server, call, old, item, resources>>
    /\ UNCHANGED dataVars
    /\ UNCHANGED treeVars
    /\ UNCHANGED transVars
    /\ UNCHANGED credVars

----------------------------------------------------------------------------
(* BWResource.delete_all, clear_all_in_project, rename, reload and         *)
(* BWGroups.deep_delete                                                    *)

(* References a caller passes to delete_all. *)
DeleteRefs == {RefStr("a"), RefStr("1"), RefStr("zz"), RefInt(0), RefInt(1)}
DeleteLists == UNION {[1..n -> DeleteRefs] : n \in 0..MaxBatch}

(* The keys of a dict as a list (here in ascending order). *)
KeyList(nm) ==
    [n \in 1..Cardinality(DOMAIN nm) |->
        CHOOSE x \in DOMAIN nm : Cardinality({y \in DOMAIN nm : y < x}) = n - 1]

(* Line 224: resource_ids[n].  BWRules.clear_all_in_project (lines          *)
(* 1442-1443) takes the keys of names as they are.                         *)
ResourceIdAt(k, op, nm, refs, n) ==
    IF k = "rules" /\ op = "clear_all_in_project" THEN RetId(refs[n].i)
    ELSE get_resource_id(nm, refs[n])

(* Line 224: the list comprehension resolves every name before the loop;   *)
(* the first one that raises ends the call.                                *)
ResolveAll(k, op, nm, refs) ==
    LET raising == {n \in 1..Len(refs) : IsRaise(ResourceIdAt(k, op, nm, refs, n))}
    IN  IF raising = {} THEN <<>>
        ELSE <<ResourceIdAt(k, op, nm, refs,
                            CHOOSE n \in raising : \A m \in raising : n <= m)>>

(* The call of a delete loop over refs. *)
DeleteLoopCall(op, refs, fault) ==
    /\ call' = [NoCall EXCEPT !.op = op, !.refs = refs, !.fault = fault]
    /\ old' = [names |-> names, server |-> server]
    /\ reqs' = <<>>
    /\ resources' = EmptyMap
    /\ IF ResolveAll(kind, op, names, refs) # <<>>
       THEN /\ ret' = ResolveAll(kind, op, names, refs)[1]
            /\ pc' = "returned"
            /\ item' = 0
       ELSE /\ ret' = NoRet
            /\ pc' = "delete"
            /\ item' = 1
    /\ UNCHANGED <<kind, server, names>>
    /\ UNCHANGED dataVars
    /\ UNCHANGED treeVars
    /\ UNCHANGED transVars
    /\ UNCHANGED credVars

(* delete_all(names): lines 217-224. *)
DeleteAllCall ==
    /\ pc = "idle"
    /\ \E refs \in DeleteLists, fault \in 0..(MaxBatch + 1) :
        /\ fault <= Len(refs) + 1
        /\ DeleteLoopCall("delete_all", refs, fault)

(* BWTags.clear_all_in_project (line 1003: delete_all(list(self.names)))   *)
(* and BWRules.clear_all_in_project (lines 1440-1444).                     *)
ClearAllInProject ==
    /\ pc = "idle"
    /\ kind \in {"tags", "rules"}
    /\ \E fault \in 0..(MaxBatch + 1) :
        /\ fault <= Cardinality(DOMAIN names) + 1
        /\ DeleteLoopCall("clear_all_in_project",
                          [n \in 1..Cardinality(DOMAIN names) |->
                              RefInt(KeyList(names)[n])],
                          fault)

(* A delete loop that reloads when the transport refuses a request. *)
DeleteAllItem_reload_on_error ==
    /\ pc = "delete"
    /\ item <= Len(call.refs)
    /\ LET resource_id == ResourceIdAt(kind, call.op, names, call.refs, item)
           answer == IF call.fault = item THEN Refused(server)
                     ELSE ServerDelete(server, resource_id)
       IN  IF resource_id.t = "id" /\ resource_id.i \in DOMAIN names
           THEN /\ server' = answer.srv
                /\ IF answer.response = <<>>
                   THEN /\ pc' = "returned"
                        /\ ret' = RaiseRuntimeError
                        /\ reqs' = reqs \o <<Request("DELETE", <<resource_id>>, <<>>, <<>>),
                                              ListingRequest>>
                        /\ names' = server
                        /\ UNCHANGED item
                   ELSE /\ item' = item + 1
                        /\ reqs' = Append(reqs, Request("DELETE", <<resource_id>>, <<>>, <<>>))
                        /\ UNCHANGED <<pc, ret, names>>
           ELSE /\ item' = item + 1
                /\ UNCHANGED <<server, reqs, pc, ret, names>>
    /\ UNCHANGED <<kind, call, old, resources>>
    /\ UNCHANGED dataVars
    /\ UNCHANGED treeVars
    /\ UNCHANGED transVars
    /\ UNCHANGED credVars

(* One iteration of the loop, lines 226-233: an id that is a key of names  *)
(* is deleted on the server, anything else is passed over.                 *)
DeleteAllItem ==
    /\ pc = "delete"
    /\ item <= Len(call.refs)
    /\ LET resource_id == ResourceIdAt(kind, call.op, names, call.refs, item)
           answer == IF call.fault = item THEN Refused(server)
                     ELSE ServerDelete(server, resource_id)
       IN  IF resource_id.t = "id" /\ resource_id.i \in DOMAIN names
           THEN /\ reqs' = Append(reqs, Request("DELETE", <<resource_id>>, <<>>, <<>>))
                /\ server' = answer.srv
                /\ IF answer.response = <<>>
                   THEN /\ pc' = "returned"
                        /\ ret' = RaiseRuntimeError
                        /\ UNCHANGED item
                   ELSE /\ item' = item + 1
                        /\ UNCHANGED <<pc, ret>>
           ELSE /\ item' = item + 1
                /\ UNCHANGED <<server, reqs, pc, ret>>
    /\ UNCHANGED <<kind, names, call, old, resources>>
    /\ UNCHANGED dataVars
    /\ UNCHANGED treeVars
    /\ UNCHANGED transVars
    /\ UNCHANGED credVars

(* The loop is over: line 235, reload(); delete_all returns None. *)
DeleteAllReturn ==
    /\ pc = "delete"
    /\ item > Len(call.refs)
    /\ reqs' = Append(reqs, ListingRequest)
    /\ IF call.fault = item
       THEN ret' = RaiseRuntimeError /\ UNCHANGED names
       ELSE ret' = RetNone /\ names' = server
    /\ pc' = "returned"
    /\ UNCHANGED <<kind, server, call, old, item, resources>>
    /\ UNCHANGED dataVars
    /\ UNCHANGED treeVars
    /\ UNCHANGED transVars
    /\ UNCHANGED credVars

(* Names a caller passes to rename and deep_delete. *)
RenameNames == {"a", "1", "zz"}

(* The first lines of rename: the resource must exist.  BWSignals.rename   *)
(* (line 1731) tests the truth of get_resource_id(name) instead of         *)
(* check_resource_exists(name).  <<>> when the check lets the call go on.  *)
rename_check(k, nm, name) ==
    IF k = "signals"
    THEN LET r == get_resource_id(nm, RefStr(name))
         IN  IF IsRaise(r) THEN <<r>>
             ELSE IF r.t = "id" /\ r.i # 0 THEN <<>>
             ELSE <<RaiseKeyError>>
    ELSE LET e == check_resource_exists(nm, RefStr(name))
         IN  IF IsRaise(e) THEN <<e>>
             ELSE IF e.b THEN <<>>
             ELSE <<RaiseKeyError>>

(* rename(name, new_name): the check, info = self.get(name), and upload of *)
(* the one item {name, new_name, **info}; BWQueries.rename (lines 333-338) *)
(* raises KeyError for a query that is a channel.  The put and the reload  *)
(* are the steps of upload_all.                                            *)
RenameCall ==
    /\ pc = "idle"
    /\ \E name \in RenameNames, new_name \in {"b"}, channel \in BOOLEAN,
          fault \in 0..2 :
        LET check == rename_check(kind, names, name)
            resource_id == get_resource_id(names, RefStr(name))
            info == ServerGet(server, resource_id)
        IN  /\ call' = [NoCall EXCEPT
                           !.op = "rename", !.ref = RefStr(name),
                           !.new_name = new_name, !.fault = fault,
                           !.data_list = <<DataItem(name, <<new_name>>, "none", FALSE)>>]
            /\ IF check # <<>>
               THEN /\ reqs' = <<>>
                    /\ ret' = check[1]
                    /\ pc' = "returned"
                    /\ item' = 0
               ELSE /\ reqs' = <<Request("GET", <<resource_id>>, <<>>, <<>>)>>
                    /\ IF info.response = <<>>
                       THEN ret' = RaiseRuntimeError /\ pc' = "returned" /\ item' = 0
                       ELSE IF kind = "queries" /\ channel
                       THEN ret' = RaiseKeyError /\ pc' = "returned" /\ item' = 0
                       ELSE ret' = NoRet /\ pc' = "upload" /\ item' = 1
    /\ old' = [names |-> names, server |-> server]
    /\ resources' = EmptyMap
    /\ UNCHANGED <<kind, server, names>>
    /\ UNCHANGED dataVars
    /\ UNCHANGED treeVars
    /\ UNCHANGED transVars
    /\ UNCHANGED credVars

(* BWGroups.deep_delete(name), lines 597-606: get_group_queries(name)      *)
(* resolves the name and gets the group, a new BWQueries (with its BWTags  *)
(* and BWCategories) lists the project's queries, and its delete_all       *)
(* deletes the group's queries and reloads itself.  The group goes when    *)
(* its last query goes (line 603); this BWGroups instance does not reload. *)
(* members: the ids of the queries the server lists for the group.         *)
DeepDelete ==
    /\ pc = "idle"
    /\ kind = "groups"
    /\ \E name \in RenameNames, members \in SUBSET (1..MaxMembers) :
        LET resource_id == get_resource_id(names, RefStr(name))
            info == ServerGet(server, resource_id)
            queries == [n \in 1..Cardinality(members) |->
                          CHOOSE x \in members :
                              Cardinality({y \in members : y < x}) = n - 1]
        IN  /\ call' = [NoCall EXCEPT !.op = "deep_delete", !.ref = RefStr(name),
                                       !.members = members]
            /\ IF IsRaise(resource_id)
               THEN /\ reqs' = <<>>
                    /\ ret' = resource_id
                    /\ UNCHANGED server
               ELSE IF info.response = <<>>
               THEN /\ reqs' = <<Request("GET", <<resource_id>>, <<>>, <<>>)>>
                    /\ ret' = RaiseRuntimeError
                    /\ UNCHANGED server
               ELSE /\ reqs' = <<Request("GET", <<resource_id>>, <<>>, <<>>),
                                 RequestTo("GET", "queries", <<>>, <<>>, <<>>),
                                 RequestTo("GET", "tags", <<>>, <<>>, <<>>),
                                 RequestTo("GET", "categories", <<>>, <<>>, <<>>)>>
                              \o [n \in 1..Len(queries) |->
                                     RequestTo("DELETE", "queries",
                                               <<RetId(queries[n])>>, <<>>, <<>>)]
                              \o <<RequestTo("GET", "queries", <<>>, <<>>, <<>>)>>
                    /\ ret' = RetNone
                    /\ server' = IF members = {} THEN server
                                 ELSE ServerDelete(server, resource_id).srv
    /\ old' = [names |-> names, server |-> server]
    /\ pc' = "returned"
    /\ UNCHANGED <<kind, names, item, resources>>
    /\ UNCHANGED dataVars
    /\ UNCHANGED treeVars
    /\ UNCHANGED transVars
    /\ UNCHANGED credVars

(* What the server answers to the listing request of a reload. *)
ListingAnswers == {"results", "errors", "no results", "malformed entry"}

(* BWResource.reload, lines 51-58: the transport raises on a non-empty     *)
(* "errors" field, a body without "results" raises KeyError, and so does   *)
(* an entry without "id" or "name" while the new dict is being built;      *)
(* names is assigned only when the dict is complete.                       *)
Reload ==
    /\ pc = "idle"
    /\ \E answer \in ListingAnswers :
        /\ answer = "malformed entry" => server # EmptyMap
        /\ call' = [NoCall EXCEPT !.op = "reload", !.listing = <<answer>>]
        /\ IF answer = "results"
           THEN names' = server /\ ret' = RetNone
           ELSE /\ UNCHANGED names
                /\ ret' = IF answer = "errors" THEN RaiseRuntimeError
                          ELSE RaiseKeyError
    /\ old' = [names |-> names, server |-> server]
    /\ reqs' = <<ListingRequest>>
    /\ pc' = "returned"
    /\ UNCHANGED <<kind, server, item, resources>>
    /\ UNCHANGED dataVars
    /\ UNCHANGED treeVars
    /\ UNCHANGED transVars
    /\ UNCHANGED credVars

(* The caller takes the outcome; the next call starts from a clean record. *)
Return ==
    /\ pc = "returned"
    /\ pc' = "idle"
    /\ call' = NoCall
    /\ old' = NoOld
    /\ ret' = NoRet
    /\ reqs' = <<>>
    /\ item' = 0
    /\ resources' = EmptyMap
    /\ UNCHANGED <<kind, server, names>>
    /\ UNCHANGED dataVars
    /\ UNCHANGED treeVars
    /\ translated' = NoSetting
    /\ UNCHANGED <<tags, authorlists>>
    /\ UNCHANGED credVars

----------------------------------------------------------------------------
(* BWData.get_mentions (src/bwdata.py) *)

DefaultPageSize == 5000

(* A page response of the data server: the "errors" field (absent, present  *)
(* and empty, or non-empty), whether it has a "results" field, and the      *)
(* number n of records in it.                                               *)
PageResponse(errors, results, n) == [errors |-> errors, results |-> results, n |-> n]
OkPage(n) == PageResponse("absent", TRUE, n)
ErrorPage == PageResponse("nonempty", FALSE, 0)
EmptyErrorsPage == PageResponse("empty", FALSE, 0)
NoResultsPage == PageResponse("absent", FALSE, 0)
PageResponses == {OkPage(n) : n \in 0..MaxPageLen}
                     \cup {ErrorPage, EmptyErrorsPage, NoResultsPage}
PageSeqs == UNION {[1..n -> PageResponses] : n \in 0..MaxPagesLen}

(* What the server answers for page index j (zero-based): past the last   *)
(* page it has, an empty page.                                             *)
PageAt(pgs, j) == IF j + 1 \in DOMAIN pgs THEN pgs[j + 1] ELSE OkPage(0)

(* The records of page j: record k of page j is <<j, k>>. *)
Records(pgs, j) == [k \in 1..PageAt(pgs, j).n |-> <<j, k>>]

(* _fill_params, lines 762-778: the name must be in the catalog (by name,  *)
(* or by id when it reads as a number) and a start date is required.       *)
fill_params_ok(nm, name, startDate) ==
    /\ name # ""
    /\ IF CanParseInt(name) THEN IntOf(name) \in DOMAIN nm
       ELSE \E rid \in DOMAIN nm : nm[rid] = name
    /\ startDate

(* _fill_params, lines 780-784: filled[self.resource_id_name] = name in    *)
(* both branches; the parameter (queryId or queryGroupId) is what the      *)
(* caller passed.                                                          *)
fill_params_resource(name) == RefStr(name)

(* A while condition that lets the page with index max_pages through. *)
KeepGoing_inclusive(limit, page) == IF limit = <<>> THEN TRUE ELSE page <= limit[1]

(* A while condition that ignores max_pages. *)
KeepGoing_no_limit(limit, page) == TRUE

(* Line 33: the while condition. *)
KeepGoing(limit, page) == IF limit = <<>> THEN TRUE ELSE page < limit[1]

(* A loop that takes a page shorter than a full page for the last one. *)
HasMentions_full_page(next_mentions) == Len(next_mentions) >= MaxPageLen

(* Line 36: a page with records is appended and the loop goes on. *)
HasMentions(next_mentions) == Len(next_mentions) > 0

(* A loop that advances by two. *)
NextPage_skip(page) == page + 2

(* Line 44: params["page"] += 1. *)
NextPage(page) == page + 1

(* Lines 28-31. *)
GetMentionsCall ==
    /\ dpc = "idle"
    /\ \E pgs \in PageSeqs, name \in {"a", "zz"}, startDate \in BOOLEAN,
          limit \in {<<>>} \cup {<<m>> : m \in 0..MaxLimit},
          kwpage \in {<<>>} \cup {<<p>> : p \in 0..MaxStart} :
        /\ pages' = pgs
        /\ max_pages' = limit
        /\ call' = [NoCall EXCEPT !.op = "get_mentions", !.ref = RefStr(name),
                                   !.startDate = startDate, !.kwpage = kwpage]
        /\ IF fill_params_ok(names, name, startDate)
           THEN /\ params' = [page |-> IF kwpage # <<>> THEN kwpage[1] ELSE 0,
                              pageSize |-> DefaultPageSize,
                              resourceId |-> fill_params_resource(name)]
                /\ dpc' = "loop"
                /\ ret' = NoRet
           ELSE /\ params' = NoParams
                /\ dpc' = "raised"
                /\ ret' = RaiseKeyError
    /\ all_mentions' = <<>>
    /\ fetched' = <<>>
    /\ UNCHANGED <<kind, server, names, pc, old, reqs, item, resources>>
    /\ UNCHANGED treeVars
    /\ UNCHANGED transVars
    /\ UNCHANGED credVars

(* A page request that takes a body without a "results" field for an      *)
(* empty page.                                                             *)
get_mentions_page_error_lenient(mentions) ==
    IF mentions.errors = "nonempty" THEN <<RaiseRuntimeError>>
    ELSE IF mentions.errors = "empty" THEN <<RaiseKeyError>>
    ELSE <<>>

(* What the request for one page raises, <<>> when it returns the records: *)
(* bare_request raises RuntimeError on a non-empty "errors" field, and     *)
(* _get_mentions_page (lines 804-811) raises KeyError when the body has an *)
(* "errors" key or no "results" key.                                       *)
get_mentions_page_error(mentions) ==
    IF mentions.errors = "nonempty" THEN <<RaiseRuntimeError>>
    ELSE IF mentions.errors = "empty" THEN <<RaiseKeyError>>
    ELSE IF ~mentions.results THEN <<RaiseKeyError>>
    ELSE <<>>

(* One iteration of the while loop, lines 33-44: the request, then append  *)
(* and advance, or break and return, or raise; the exception leaves        *)
(* get_mentions and its local all_mentions is gone.                        *)
GetMentionsPage ==
    /\ dpc = "loop"
    /\ KeepGoing(max_pages, params.page)
    /\ fetched' = Append(fetched, params.page)
    /\ LET mentions == PageAt(pages, params.page)
           next_mentions == Records(pages, params.page)
           error == get_mentions_page_error(mentions)
       IN  IF error # <<>>
           THEN /\ dpc' = "raised"
                /\ ret' = error[1]
                /\ all_mentions' = <<>>
                /\ UNCHANGED params
           ELSE IF HasMentions(next_mentions)
           THEN /\ all_mentions' = all_mentions \o next_mentions
                /\ params' = [params EXCEPT !.page = NextPage(params.page)]
                /\ UNCHANGED <<dpc, ret>>
           ELSE /\ dpc' = "done"
                /\ UNCHANGED <<all_mentions, params, ret>>
    /\ UNCHANGED <<kind, server, names, pc, call, old, reqs, item, resources,
                   pages, max_pages>>
    /\ UNCHANGED treeVars
    /\ UNCHANGED transVars
    /\ UNCHANGED credVars

(* The while condition fails: lines 46-48, return all_mentions. *)
GetMentionsLimit ==
    /\ dpc = "loop"
    /\ ~KeepGoing(max_pages, params.page)
    /\ dpc' = "done"
    /\ UNCHANGED <<kind, server, names, pc, call, old, ret, reqs, item, resources,
                   pages, max_pages, params, all_mentions, fetched>>
    /\ UNCHANGED treeVars
    /\ UNCHANGED transVars
    /\ UNCHANGED credVars

(* The caller takes the list or the exception. *)
GetMentionsReturn ==
    /\ dpc \in {"done", "raised"}
    /\ dpc' = "idle"
    /\ pages' = <<>>
    /\ max_pages' = <<>>
    /\ params' = NoParams
    /\ all_mentions' = <<>>
    /\ fetched' = <<>>
    /\ call' = NoCall
    /\ ret' = NoRet
    /\ UNCHANGED <<kind, server, names, pc, old, reqs, item, resources>>
    /\ UNCHANGED treeVars
    /\ UNCHANGED transVars
    /\ UNCHANGED credVars

(* A BWQueries or BWGroups instance over a catalog with one resource. *)
InitData ==
    /\ kind \in {"queries", "groups"}
    /\ server \in {c \in Catalogs : DOMAIN c = {1}}
    /\ names = server
    /\ pc = "idle"
    /\ call = NoCall
    /\ old = NoOld
    /\ ret = NoRet
    /\ reqs = <<>>
    /\ item = 0
    /\ resources = EmptyMap
    /\ DataIdle
    /\ TreeIdle
    /\ TransIdle
    /\ CredIdle

NextData ==
    \/ GetMentionsCall
    \/ GetMentionsPage
    \/ GetMentionsLimit
    \/ GetMentionsReturn

SpecData == InitData /\ [][NextData]_vars

(* get_mentions runs in the caller's thread: a request that can be issued  *)
(* is issued, and a loop that can end ends.                                *)
SpecDataLive ==
    /\ InitData
    /\ [][NextData]_vars
    /\ WF_vars(GetMentionsPage)
    /\ WF_vars(GetMentionsLimit)

----------------------------------------------------------------------------
(* BWCategories.reload *)

(* One category of the listing the server returns: its name, id, multiple  *)
(* flag and children, and the key the entry lacks ("none" when complete).  *)
Child == [name |-> "c", id |-> 3]
CatEntries ==
    [name : {"a", "b"}, id : 1..MaxCats, multiple : {TRUE},
     children : {<<>>, <<Child>>}, lacks : {"none", "children"}]
CatListings == UNION {[1..n -> CatEntries] : n \in 0..MaxCats}

(* d[key] = value on a dict. *)
SetItem(d, key, value) ==
    [x \in DOMAIN d \cup {key} |-> IF x = key THEN value ELSE d[x]]

(* Lines 1062-1064: children[child["name"]] = child["id"] for each child. *)
RECURSIVE ChildrenOf(_)
ChildrenOf(cs) ==
    IF cs = <<>> THEN EmptyMap
    ELSE LET n == Len(cs)
         IN  SetItem(ChildrenOf(SubSeq(cs, 1, n - 1)), cs[n].name, cs[n].id)

(* Lines 1065-1069: the value stored under the category's name. *)
TreeEntry(cat) ==
    [id |-> cat.id, multiple |-> cat.multiple,
     children |-> ChildrenOf(cat.children)]

(* What self.ids holds when the loop of reload has run to its end. *)
RECURSIVE TreeOf(_)
TreeOf(listing) ==
    IF listing = <<>> THEN EmptyMap
    ELSE LET n == Len(listing)
         IN  SetItem(TreeOf(SubSeq(listing, 1, n - 1)),
                     listing[n].name, TreeEntry(listing[n]))

(* Somebody edits the project's categories (the case the docstring of      *)
(* reload names), or the server's answer changes between two reloads.      *)
CategoriesEdited ==
    /\ pc = "idle"
    /\ categories' \in CatListings \ {categories}
    /\ UNCHANGED ids
    /\ UNCHANGED catalogVars
    /\ UNCHANGED dataVars
    /\ UNCHANGED transVars
    /\ UNCHANGED credVars

(* reload(), lines 1054-1060: the request (the transport raises on a       *)
(* non-empty "errors" field), the "results" test, and self.ids = {}.       *)
CategoriesReload ==
    /\ pc = "idle"
    /\ \E answer \in {"results", "errors", "no results"} :
        /\ call' = [NoCall EXCEPT !.op = "categories_reload",
                                  !.listing = <<answer>>]
        /\ IF answer = "results"
           THEN /\ ids' = EmptyMap
                /\ pc' = "tree"
                /\ item' = 1
                /\ UNCHANGED ret
           ELSE /\ ret' = IF answer = "errors" THEN RaiseRuntimeError
                          ELSE RaiseKeyError
                /\ pc' = "returned"
                /\ UNCHANGED <<ids, item>>
    /\ old' = [names |-> ids, server |-> categories]
    /\ reqs' = <<RequestTo("GET", "categories", <<>>, <<>>, <<>>)>>
    /\ UNCHANGED <<kind, server, names, resources, categories>>
    /\ UNCHANGED dataVars
    /\ UNCHANGED transVars
    /\ UNCHANGED credVars

(* One turn of the loop of lines 1061-1069: a missing key raises KeyError  *)
(* out of reload; otherwise the entry is stored in self.ids.               *)
CategoriesReloadEntry ==
    /\ pc = "tree"
    /\ IF item > Len(categories)
       THEN /\ ret' = RetNone
            /\ pc' = "returned"
            /\ UNCHANGED <<ids, item>>
       ELSE LET cat == categories[item]
            IN  IF cat.lacks # "none"
                THEN /\ ret' = RaiseKeyError
                     /\ pc' = "returned"
                     /\ UNCHANGED <<ids, item>>
                ELSE /\ ids' = SetItem(ids, cat.name, TreeEntry(cat))
                     /\ item' = item + 1
                     /\ UNCHANGED <<pc, ret>>
    /\ UNCHANGED <<kind, server, names, call, old, reqs, resources, categories>>
    /\ UNCHANGED dataVars
    /\ UNCHANGED transVars
    /\ UNCHANGED credVars

(* A BWCategories instance after its constructor: the first reload went    *)
(* through, over a project with at most one category.                      *)
InitTree ==
    /\ kind = "categories"
    /\ server = EmptyMap
    /\ names = EmptyMap
    /\ pc = "idle"
    /\ call = NoCall
    /\ old = NoOld
    /\ ret = NoRet
    /\ reqs = <<>>
    /\ item = 0
    /\ resources = EmptyMap
    /\ DataIdle
    /\ categories \in {l \in CatListings :
                          Len(l) <= 1 /\ \A j \in DOMAIN l : l[j].lacks = "none"}
    /\ ids = TreeOf(categories)
    /\ TransIdle
    /\ CredIdle

NextTree ==
    \/ CategoriesEdited
    \/ CategoriesReload
    \/ CategoriesReloadEntry
    \/ Return

SpecTree == InitTree /\ [][NextTree]_vars

----------------------------------------------------------------------------
(* _name_to_id of BWQueries (lines 365-440), BWGroups (620-695) and        *)
(* BWRules (1536-1611)                                                     *)

CategoryAttributes == {"category", "xcategory"}
ParentAttributes ==
    {"parentCategory", "xparentCategory", "parentCategories", "categories"}
TagAttributes == {"tag", "xtag", "tags"}
AuthorAttributes == {"authorGroup", "xauthorGroup"}

(* int(i) succeeds on an int and on a string that reads as one. *)
IsIntLike(e) == e.t = "int" \/ (e.t = "str" /\ CanParseInt(e.s))

(* [int(i) for i in setting] *)
IntList(l) ==
    [j \in DOMAIN l |-> RefInt(IF l[j].t = "int" THEN l[j].i ELSE IntOf(l[j].s))]

(* if not isinstance(setting, list): setting = [setting] *)
AsList(setting) ==
    IF setting.t = "list" THEN setting.l
    ELSE IF setting.t = "str" THEN <<RefStr(setting.s)>>
    ELSE <<RefNone>>

(* The value get_resource_id returned, as a list element. *)
Element(r) ==
    IF r.t = "id" THEN RefInt(r.i)
    ELSE IF r.t = "empty" THEN RefStr("")
    ELSE RefNone

(* The first element of rs that is a raised exception. *)
FirstRaise(rs) ==
    CHOOSE j \in DOMAIN rs : IsRaise(rs[j]) /\ \A l \in 1..(j - 1) : ~IsRaise(rs[l])

Translated(value) == [value |-> value, reqs |-> <<>>]

(* The category branch of BWQueries and BWGroups: the id of every child,   *)
(* self.categories.ids[parent]["children"][child], in the order given.     *)
category_children(tree, setting) ==
    LET parent == setting.p
        children == setting.l
    IN  IF \E j \in DOMAIN children :
              \/ parent \notin DOMAIN tree
              \/ children[j].s \notin DOMAIN tree[parent].children
        THEN SetRaise("KeyError")
        ELSE SetList([j \in DOMAIN children |->
                         RefInt(tree[parent].children[children[j].s])])

(* The category branch of BWRules: child = setting[category][0], and the   *)
(* return is that one child's id.                                          *)
category_first_child(tree, setting) ==
    LET parent == setting.p
        children == setting.l
    IN  IF children = <<>> THEN SetRaise("IndexError")
        ELSE IF \/ parent \notin DOMAIN tree
                \/ children[1].s \notin DOMAIN tree[parent].children
        THEN SetRaise("KeyError")
        ELSE SetInt(tree[parent].children[children[1].s])

(* The parentCategory branch: self.categories.ids[s]["id"] for each name. *)
parent_ids(tree, setting) ==
    LET l == AsList(setting)
    IN  IF \E j \in DOMAIN l : l[j].t # "str" \/ l[j].s \notin DOMAIN tree
        THEN SetRaise("KeyError")
        ELSE SetList([j \in DOMAIN l |-> RefInt(tree[l[j].s].id)])

(* The tag branch: self.tags.get_resource_id(s) for each s. *)
tag_ids(tg, setting) ==
    LET l == AsList(setting)
        rs == [j \in DOMAIN l |-> get_resource_id(tg, l[j])]
    IN  IF \E j \in DOMAIN rs : IsRaise(rs[j])
        THEN SetRaise(rs[FirstRaise(rs)].t)
        ELSE SetList([j \in DOMAIN rs |-> Element(rs[j])])

(* The authorGroup branch: a fresh BWAuthorLists(self.project), whose      *)
(* constructor requests the listing, then authorlists.get(s)["id"] for     *)
(* each s: get_resource_id and a request for the list.                     *)
author_ids(al, setting) ==
    LET l == AsList(setting)
        rs == [j \in DOMAIN l |-> get_resource_id(al, l[j])]
        got(n) == [j \in 1..n |->
                      RequestTo("GET", "group/author", <<rs[j]>>, <<>>, <<>>)]
        listing == <<RequestTo("GET", "group/author/summary", <<>>, <<>>, <<>>)>>
    IN  IF \E j \in DOMAIN rs : IsRaise(rs[j])
        THEN [value |-> SetRaise(rs[FirstRaise(rs)].t),
              reqs |-> listing \o got(FirstRaise(rs) - 1)]
        ELSE [value |-> SetList([j \in DOMAIN rs |-> Element(rs[j])]),
              reqs |-> listing \o got(Len(l))]

(* _name_to_id of translator k: the value it returns or the exception it   *)
(* raises, and the requests it issues.  In BWRules the category test is an *)
(* elif of the list test, so a list that is not all numbers falls through  *)
(* every branch and the method returns None.                               *)
name_to_id(k, attribute, setting, tree, tg, al) ==
    IF setting.t = "int" THEN Translated(setting)
    ELSE IF setting.t = "list" /\ \A j \in DOMAIN setting.l : IsIntLike(setting.l[j])
    THEN Translated(SetList(IntList(setting.l)))
    ELSE IF k = "rules" /\ setting.t = "list" THEN Translated(SetNone)
    ELSE IF attribute \in CategoryAttributes
    THEN Translated(IF k = "rules" THEN category_first_child(tree, setting)
                    ELSE category_children(tree, setting))
    ELSE IF attribute \in ParentAttributes THEN Translated(parent_ids(tree, setting))
    ELSE IF attribute \in TagAttributes THEN Translated(tag_ids(tg, setting))
    ELSE IF attribute \in AuthorAttributes THEN author_ids(al, setting)
    ELSE Translated(setting)

(* What callers pass. *)
SettingNames == {"a", "b", "zz"}
ChildNames == {"c", "d", "e"}
ListElements == {RefStr(x) : x \in SettingNames \cup {"1"}} \cup {RefInt(1)}
SettingLists == UNION {[1..n -> ListElements] : n \in 0..MaxSetting}
ChildLists ==
    UNION {[1..n -> {RefStr(x) : x \in ChildNames}] : n \in 0..MaxSetting}
NameSettings ==
    {SetInt(1)} \cup {SetStr(x) : x \in SettingNames} \cup {SetList(l) : l \in SettingLists}
CategorySettings ==
    {SetInt(1), SetList(<<RefInt(3), RefStr("4")>>)}
    \cup {SetDict(parent, l) : parent \in {"a", "b"}, l \in ChildLists}
Attributes ==
    {"category", "xcategory", "parentCategory", "tag", "xtag", "tags",
     "authorGroup", "sentiment"}
SettingsOf(attribute) ==
    IF attribute \in CategoryAttributes THEN CategorySettings
    ELSE IF attribute \in TagAttributes THEN NameSettings \cup {SetStr("")}
    ELSE IF attribute = "sentiment" THEN NameSettings \cup {SetStr("positive")}
    ELSE NameSettings

(* A call of _name_to_id, as filters() and _fill_data make it. *)
NameToId ==
    /\ pc = "idle"
    /\ \E attribute \in Attributes :
       \E setting \in SettingsOf(attribute) :
        LET r == name_to_id(kind, attribute, setting, ids, tags, authorlists)
        IN  /\ call' = [NoCall EXCEPT !.op = "name_to_id",
                                      !.attribute = attribute,
                                      !.setting = setting]
            /\ translated' = r.value
            /\ reqs' = r.reqs
    /\ pc' = "returned"
    /\ UNCHANGED <<kind, server, names, old, ret, item, resources>>
    /\ UNCHANGED <<tags, authorlists>>
    /\ UNCHANGED credVars
    /\ UNCHANGED dataVars
    /\ UNCHANGED treeVars

(* The declared type of a filter (the table filters.params): a list for    *)
(* the filters that take ids, a string for the others of the model.        *)
FilterType(param) ==
    IF param \in CategoryAttributes \cup ParentAttributes \cup TagAttributes
                 \cup AuthorAttributes
    THEN "list"
    ELSE "str"

(* The enumerated values of a filter (the table filters.special_options). *)
SpecialOptions(param) ==
    IF param = "sentiment" THEN {SetStr("positive"), SetStr("negative"), SetStr("neutral")}
    ELSE {}

(* _valid_input, lines 813-819: the translated setting is an instance of   *)
(* the declared type and, for an enumerated filter, one of its values.     *)
valid_input(param, setting) ==
    IF setting.t # FilterType(param) THEN FALSE
    ELSE IF SpecialOptions(param) # {} /\ setting \notin SpecialOptions(param) THEN FALSE
    ELSE TRUE

(* The loop of _fill_params, lines 795-800, from filter j on: translate,   *)
(* validate, store; the first exception of _name_to_id or the first        *)
(* invalid setting ends the call.  attempted counts the filters that       *)
(* _name_to_id was called for.                                             *)
RECURSIVE fill_params_from(_, _, _, _, _, _)
fill_params_from(k, data, j, tree, tg, al) ==
    IF j > Len(data)
    THEN [error |-> <<>>, attempted |-> Len(data), reqs |-> <<>>, filled |-> EmptyMap]
    ELSE LET r == name_to_id(k, data[j].param, data[j].setting, tree, tg, al)
         IN  IF IsRaise(r.value)
             THEN [error |-> <<r.value.t>>, attempted |-> j, reqs |-> r.reqs,
                   filled |-> EmptyMap]
             ELSE IF ~valid_input(data[j].param, r.value)
             THEN [error |-> <<"KeyError">>, attempted |-> j, reqs |-> r.reqs,
                   filled |-> EmptyMap]
             ELSE LET rest == fill_params_from(k, data, j + 1, tree, tg, al)
                  IN  [rest EXCEPT
                          !.reqs = r.reqs \o rest.reqs,
                          !.filled = IF rest.error # <<>> THEN EmptyMap
                                     ELSE SetItem(rest.filled, data[j].param, r.value)]

(* The filters callers pass, in the order of the keyword arguments. *)
Filter(param, setting) == [param |-> param, setting |-> setting]
FilterChoices ==
    {Filter("tag", SetStr("a")), Filter("tag", SetInt(1)),
     Filter("tag", SetList(<<RefStr("zz")>>)),
     Filter("authorGroup", SetStr("a")), Filter("authorGroup", SetList(<<RefStr("a")>>)),
     Filter("sentiment", SetStr("positive")), Filter("sentiment", SetStr("zz")),
     Filter("category", SetInt(1))}
FilterLists ==
    {l \in UNION {[1..n -> FilterChoices] : n \in 1..MaxFilters} :
        \A i, j \in DOMAIN l : i # j => l[i].param # l[j].param}

(* get_mentions(name, startDate, **kwargs) of a BWQueries or BWGroups up   *)
(* to the return of _fill_params (line 28), the name and the start date    *)
(* being in order: an exception leaves get_mentions before it requests a   *)
(* page.                                                                   *)
FillParams ==
    /\ pc = "idle"
    /\ kind \in {"queries", "groups"}
    /\ \E data \in FilterLists :
        LET r == fill_params_from(kind, data, 1, ids, tags, authorlists)
        IN  /\ call' = [NoCall EXCEPT !.op = "fill_params", !.data = data]
            /\ ret' = IF r.error = <<>> THEN RetMap(r.filled)
                      ELSE [RaiseKeyError EXCEPT !.t = r.error[1]]
            /\ reqs' = r.reqs
            /\ item' = r.attempted
    /\ pc' = "returned"
    /\ UNCHANGED <<kind, server, names, old, resources>>
    /\ UNCHANGED transVars
    /\ UNCHANGED credVars
    /\ UNCHANGED dataVars
    /\ UNCHANGED treeVars

(* The categories a translator's project has: one parent with up to two    *)
(* children, listed in either order.                                       *)
TransChildren ==
    {<<>>, <<[name |-> "c", id |-> 3]>>,
     <<[name |-> "c", id |-> 3], [name |-> "d", id |-> 4]>>,
     <<[name |-> "d", id |-> 4], [name |-> "c", id |-> 3]>>,
     <<[name |-> "d", id |-> 3], [name |-> "c", id |-> 4]>>}
TransListings ==
    {<<>>} \cup {<<[name |-> "a", id |-> 1, multiple |-> TRUE, children |-> cs,
                    lacks |-> "none"]>> : cs \in TransChildren}
TagCatalogs ==
    {c \in Catalogs : DOMAIN c \subseteq 1..MaxId
                      /\ \A x \in DOMAIN c : c[x] \in {"a", "b"}}

(* A BWQueries, BWGroups or BWRules instance after its constructor, which  *)
(* built self.tags and self.categories.                                    *)
InitTranslate ==
    /\ kind \in {"queries", "groups", "rules"}
    /\ server = EmptyMap
    /\ names = EmptyMap
    /\ pc = "idle"
    /\ call = NoCall
    /\ old = NoOld
    /\ ret = NoRet
    /\ reqs = <<>>
    /\ item = 0
    /\ resources = EmptyMap
    /\ DataIdle
    /\ categories \in TransListings
    /\ ids = TreeOf(categories)
    /\ tags \in TagCatalogs
    /\ authorlists \in {EmptyMap, [x \in {1} |-> "a"]}
    /\ translated = NoSetting
    /\ CredIdle

NextTranslate ==
    \/ NameToId
    \/ FillParams
    \/ Return

SpecTranslate == InitTranslate /\ [][NextTranslate]_vars

----------------------------------------------------------------------------
(* BWCategories.upload_all, rename and delete_all *)

(* An item of data_list: name, new_name ("" when absent), id and multiple  *)
(* (<<>> when absent) and the list of child names.                         *)
CatItem(name, new_name, id, multiple, children) ==
    [name |-> name, new_name |-> new_name, id |-> id, multiple |-> multiple,
     children |-> children]

(* A request to the categories endpoint; payload is <<>> without a body. *)
CatRequest(verb, addr, payload) ==
    [verb |-> verb, endpoint |-> "categories", addr |-> addr, payload |-> payload]

(* list(self.ids[name]["children"]): the child names, in the order of      *)
(* their ids, which is the order the server lists them in.                 *)
ChildList(children) ==
    [n \in 1..Cardinality(DOMAIN children) |->
        CHOOSE c \in DOMAIN children :
            Cardinality({d \in DOMAIN children : children[d] < children[c]}) = n - 1]

(* A payload that always carries the default flag. *)
cat_fill_data_default_flag(tree, data) ==
    IF data.new_name # "" /\ data.name \notin DOMAIN tree THEN <<>>
    ELSE <<[id |-> IF data.new_name # "" THEN <<tree[data.name].id>> ELSE data.id,
            name |-> IF data.new_name # "" THEN data.new_name ELSE data.name,
            multiple |-> TRUE,
            children |->
                [j \in DOMAIN data.children |->
                    [name |-> data.children[j],
                     id |-> IF /\ data.name \in DOMAIN tree
                               /\ data.children[j] \in DOMAIN tree[data.name].children
                            THEN <<tree[data.name].children[data.children[j]]>>
                            ELSE <<>>]]]>>

(* _fill_data, lines 1238-1264: the payload.  A child gets its id when the *)
(* tree has it under data["name"], None (<<>>) otherwise.  With a new_name *)
(* the id is read from the tree, KeyError when the name is not there.      *)
cat_fill_data(tree, data) ==
    IF data.new_name # "" /\ data.name \notin DOMAIN tree THEN <<>>
    ELSE <<[id |-> IF data.new_name # "" THEN <<tree[data.name].id>> ELSE data.id,
            name |-> IF data.new_name # "" THEN data.new_name ELSE data.name,
            multiple |-> IF data.multiple # <<>> THEN data.multiple[1] ELSE TRUE,
            children |->
                [j \in DOMAIN data.children |->
                    [name |-> data.children[j],
                     id |-> IF /\ data.name \in DOMAIN tree
                               /\ data.children[j] \in DOMAIN tree[data.name].children
                            THEN <<tree[data.name].children[data.children[j]]>>
                            ELSE <<>>]]]>>

(* The request upload_all issues for one item, lines 1119-1150, <<>> when  *)
(* it issues none; self.ids is the tree as of the last reload.             *)
cat_upload_request(tree, data, create_only, modify_only, overwrite_children) ==
    IF data.name \in DOMAIN tree /\ ~create_only
    THEN LET existing_children == ChildList(tree[data.name].children)
             new_children ==
                 {j \in DOMAIN data.children :
                     data.children[j] \notin DOMAIN tree[data.name].children}
             appended == [data EXCEPT !.children = data.children \o existing_children]
         IN  IF new_children # {} \/ overwrite_children
             THEN <<[verb |-> "PUT", addr |-> <<tree[data.name].id>>,
                     payload |-> cat_fill_data(tree, IF overwrite_children THEN data
                                                     ELSE appended)]>>
             ELSE IF data.new_name # ""
             THEN <<[verb |-> "PUT", addr |-> <<tree[data.name].id>>,
                     payload |-> cat_fill_data(tree, data)]>>
             ELSE <<>>
    ELSE IF data.name \notin DOMAIN tree /\ ~modify_only
    THEN <<[verb |-> "POST", addr |-> <<>>, payload |-> cat_fill_data(tree, data)]>>
    ELSE <<>>

(* The server behind the categories endpoint.  It gives a child that comes *)
(* without an id the next free id, and refuses an update or a delete of an *)
(* id it does not hold and a second category of the same name.             *)
AllIds(listing) ==
    {listing[j].id : j \in DOMAIN listing}
    \cup UNION {{listing[j].children[n].id : n \in DOMAIN listing[j].children} :
                   j \in DOMAIN listing}
NextFreeId(listing) ==
    1 + (CHOOSE m \in AllIds(listing) \cup {0} : \A x \in AllIds(listing) : x <= m)

StoredChildren(children, free) ==
    [j \in DOMAIN children |->
        [name |-> children[j].name,
         id |-> IF children[j].id # <<>> THEN children[j].id[1]
                ELSE free - 1 + Cardinality({l \in 1..j : children[l].id = <<>>})]]

StoredCategory(id, payload, free) ==
    [name |-> payload.name, id |-> id, multiple |-> payload.multiple,
     children |-> StoredChildren(payload.children, free), lacks |-> "none"]

CatServerPut(listing, id, payload) ==
    IF id \notin {listing[j].id : j \in DOMAIN listing} THEN <<>>
    ELSE IF \E j \in DOMAIN listing : listing[j].id # id /\ listing[j].name = payload.name
    THEN <<>>
    ELSE <<[j \in DOMAIN listing |->
               IF listing[j].id = id
               THEN StoredCategory(id, payload, NextFreeId(listing))
               ELSE listing[j]]>>

CatServerPost(listing, payload) ==
    IF \E j \in DOMAIN listing : listing[j].name = payload.name THEN <<>>
    ELSE
    <<Append(listing, StoredCategory(NextFreeId(listing), payload,
                                     NextFreeId(listing) + 1))>>

RECURSIVE Without(_, _)
Without(listing, id) ==
    IF listing = <<>> THEN <<>>
    ELSE IF listing[1].id = id THEN Without(Tail(listing), id)
    ELSE <<listing[1]>> \o Without(Tail(listing), id)

CatServerDelete(listing, id) ==
    IF id \notin {listing[j].id : j \in DOMAIN listing} THEN <<>>
    ELSE <<Without(listing, id)>>

(* What callers pass. *)
CatChildNames == {"c", "e"}
CatChildLists == UNION {[1..n -> CatChildNames] : n \in 0..MaxSetting}
CatUploadItems ==
    {CatItem(name, "", <<>>, <<>>, children) :
        name \in {"a", "b"}, children \in CatChildLists}
CatUploadLists == UNION {[1..n -> CatUploadItems] : n \in 0..MaxCatBatch}

(* upload_all(data_list, create_only, modify_only, overwrite_children). *)
CatUploadAllCall ==
    /\ pc = "idle"
    /\ \E data_list \in CatUploadLists, overwrite_children \in BOOLEAN,
          flags \in {<<FALSE, FALSE>>, <<TRUE, FALSE>>, <<FALSE, TRUE>>} :
        call' = [NoCall EXCEPT !.op = "cat_upload_all", !.data_list = data_list,
                               !.create_only = flags[1], !.modify_only = flags[2],
                               !.overwrite_children = overwrite_children]
    /\ old' = [names |-> ids, server |-> categories]
    /\ pc' = "cat_upload"
    /\ item' = 1
    /\ reqs' = <<>>
    /\ UNCHANGED <<kind, server, names, ret, resources>>
    /\ UNCHANGED dataVars
    /\ UNCHANGED treeVars
    /\ UNCHANGED transVars
    /\ UNCHANGED credVars

(* rename(name, new_name), lines 1174-1185: KeyError for a name the tree   *)
(* does not have, otherwise upload() of one item that carries the          *)
(* category's id, flag and children.                                       *)
CategoriesRename ==
    /\ pc = "idle"
    /\ \E name \in {"a", "b"}, new_name \in {"b", "z"} :
        IF name \notin DOMAIN ids
        THEN /\ call' = [NoCall EXCEPT !.op = "cat_rename", !.ref = RefStr(name),
                                       !.new_name = new_name]
             /\ ret' = RaiseKeyError
             /\ pc' = "returned"
             /\ item' = 0
        ELSE /\ call' = [NoCall EXCEPT
                            !.op = "cat_rename", !.ref = RefStr(name),
                            !.new_name = new_name,
                            !.data_list =
                                <<CatItem(name, new_name, <<ids[name].id>>,
                                          <<ids[name].multiple>>,
                                          ChildList(ids[name].children))>>]
             /\ pc' = "cat_upload"
             /\ item' = 1
             /\ UNCHANGED ret
    /\ old' = [names |-> ids, server |-> categories]
    /\ reqs' = <<>>
    /\ UNCHANGED <<kind, server, names, resources>>
    /\ UNCHANGED dataVars
    /\ UNCHANGED treeVars
    /\ UNCHANGED transVars
    /\ UNCHANGED credVars

(* One turn of the loop of upload_all, lines 1111-1150. *)
CatUploadItem ==
    /\ pc = "cat_upload"
    /\ item <= Len(call.data_list)
    /\ LET r == cat_upload_request(ids, call.data_list[item], call.create_only,
                                   call.modify_only, call.overwrite_children)
           response == IF r[1].verb = "PUT"
                       THEN CatServerPut(categories, r[1].addr[1], r[1].payload[1])
                       ELSE CatServerPost(categories, r[1].payload[1])
       IN  IF r = <<>>
           THEN /\ item' = item + 1
                /\ UNCHANGED <<pc, ret, reqs, categories>>
           ELSE IF r[1].payload = <<>>
           THEN /\ ret' = RaiseKeyError
                /\ pc' = "returned"
                /\ UNCHANGED <<item, reqs, categories>>
           ELSE /\ reqs' = Append(reqs, CatRequest(r[1].verb, r[1].addr, r[1].payload))
                /\ IF response = <<>>
                   THEN /\ ret' = RaiseRuntimeError
                        /\ pc' = "returned"
                        /\ UNCHANGED <<item, categories>>
                   ELSE /\ categories' = response[1]
                        /\ item' = item + 1
                        /\ UNCHANGED <<pc, ret>>
    /\ UNCHANGED <<kind, server, names, call, old, resources, ids>>
    /\ UNCHANGED dataVars
    /\ UNCHANGED transVars
    /\ UNCHANGED credVars

(* Lines 1152-1162: reload(), then the tree's entries for the items' names *)
(* are returned; rename returns nothing.                                   *)
CatUploadReturn ==
    /\ pc = "cat_upload"
    /\ item > Len(call.data_list)
    /\ reqs' = Append(reqs, CatRequest("GET", <<>>, <<>>))
    /\ ids' = TreeOf(categories)
    /\ ret' = IF call.op = "cat_rename" THEN RetNone
              ELSE LET tree == TreeOf(categories)
                       uploaded == {call.data_list[j].name : j \in DOMAIN call.data_list}
                                   \cap DOMAIN tree
                   IN  RetMap([name \in uploaded |-> tree[name]])
    /\ pc' = "returned"
    /\ UNCHANGED <<kind, server, names, call, old, item, resources, categories>>
    /\ UNCHANGED dataVars
    /\ UNCHANGED transVars
    /\ UNCHANGED credVars

(* An item of delete_all: a parent name (a string), or a dict with a       *)
(* parent name and the children to delete.                                 *)
CatDeleteItems ==
    {[dict |-> FALSE, name |-> name, children |-> <<>>] : name \in {"a", "b"}}
    \cup {[dict |-> TRUE, name |-> name, children |-> children] :
            name \in {"a", "b"}, children \in CatChildLists}
CatDeleteLists == UNION {[1..n -> CatDeleteItems] : n \in 0..MaxCatBatch}

(* delete_all(names). *)
CatDeleteAllCall ==
    /\ pc = "idle"
    /\ \E names_list \in CatDeleteLists :
        call' = [NoCall EXCEPT !.op = "cat_delete_all", !.data_list = names_list]
    /\ old' = [names |-> ids, server |-> categories]
    /\ pc' = "cat_delete"
    /\ item' = 1
    /\ reqs' = <<>>
    /\ UNCHANGED <<kind, server, names, ret, resources>>
    /\ UNCHANGED dataVars
    /\ UNCHANGED treeVars
    /\ UNCHANGED transVars
    /\ UNCHANGED credVars

(* A delete_all that deletes the parent whatever the item. *)
cat_delete_request_whole(tree, x) ==
    IF x.name \notin DOMAIN tree THEN <<>>
    ELSE <<[verb |-> "DELETE", addr |-> <<tree[x.name].id>>, payload |-> <<>>]>>

(* The request delete_all issues for one item, lines 1204-1230: a delete   *)
(* of the parent, or an update of the parent with the children that are    *)
(* left; none for a name the tree does not have.                           *)
cat_delete_request(tree, x) ==
    IF x.name \notin DOMAIN tree THEN <<>>
    ELSE IF ~x.dict
    THEN <<[verb |-> "DELETE", addr |-> <<tree[x.name].id>>, payload |-> <<>>]>>
    ELSE LET existing_children == ChildList(tree[x.name].children)
             deleted == {x.children[j] : j \in DOMAIN x.children}
             updated_children ==
                 SelectSeq(existing_children, LAMBDA child : child \notin deleted)
         IN  <<[verb |-> "PUT", addr |-> <<tree[x.name].id>>,
                payload |-> cat_fill_data(tree,
                                CatItem(x.name, "", <<>>, <<tree[x.name].multiple>>,
                                        updated_children))]>>

(* One turn of the loop of delete_all. *)
CatDeleteItem ==
    /\ pc = "cat_delete"
    /\ item <= Len(call.data_list)
    /\ LET r == cat_delete_request(ids, call.data_list[item])
           response == IF r[1].verb = "PUT"
                       THEN CatServerPut(categories, r[1].addr[1], r[1].payload[1])
                       ELSE CatServerDelete(categories, r[1].addr[1])
       IN  IF r = <<>>
           THEN /\ item' = item + 1
                /\ UNCHANGED <<pc, ret, reqs, categories>>
           ELSE /\ reqs' = Append(reqs, CatRequest(r[1].verb, r[1].addr, r[1].payload))
                /\ IF response = <<>>
                   THEN /\ ret' = RaiseRuntimeError
                        /\ pc' = "returned"
                        /\ UNCHANGED <<item, categories>>
                   ELSE /\ categories' = response[1]
                        /\ item' = item + 1
                        /\ UNCHANGED <<pc, ret>>
    /\ UNCHANGED <<kind, server, names, call, old, resources, ids>>
    /\ UNCHANGED dataVars
    /\ UNCHANGED transVars
    /\ UNCHANGED credVars

(* Line 1231: reload(); delete_all returns None. *)
CatDeleteReturn ==
    /\ pc = "cat_delete"
    /\ item > Len(call.data_list)
    /\ reqs' = Append(reqs, CatRequest("GET", <<>>, <<>>))
    /\ ids' = TreeOf(categories)
    /\ ret' = RetNone
    /\ pc' = "returned"
    /\ UNCHANGED <<kind, server, names, call, old, item, resources, categories>>
    /\ UNCHANGED dataVars
    /\ UNCHANGED transVars
    /\ UNCHANGED credVars

(* A BWCategories instance after its constructor, over a project with the  *)
(* category a (its flag set or not, with up to two children) and possibly  *)
(* a category b without children; then one call.                           *)
(* delete_all, lines 1204-1230, for an item that is an int: neither       *)
(* isinstance(item, str) nor isinstance(item, dict) holds, so the loop     *)
(* issues no request for it.                                               *)
cat_delete_request_of_id(tree, id) == <<>>

(* clear_all_in_project, lines 1233-1236: delete(self.ids[cat]["id"]) for  *)
(* every category of the tree, that is delete_all([id]) and its reload,    *)
(* once per category.                                                      *)
CatClearAllInProject ==
    /\ pc = "idle"
    /\ LET cats == {ids[name].id : name \in DOMAIN ids}
           deleted(id) == cat_delete_request_of_id(ids, id)
                          \o <<CatRequest("GET", <<>>, <<>>)>>
           RECURSIVE all(_)
           all(S) == IF S = {} THEN <<>>
                     ELSE LET id == CHOOSE x \in S : \A y \in S : x <= y
                          IN  deleted(id) \o all(S \ {id})
       IN  /\ call' = [NoCall EXCEPT !.op = "cat_clear_all_in_project"]
           /\ reqs' = all(cats)
           /\ ids' = IF cats = {} THEN ids ELSE TreeOf(categories)
    /\ old' = [names |-> ids, server |-> categories]
    /\ ret' = RetNone
    /\ pc' = "returned"
    /\ UNCHANGED <<kind, server, names, item, resources, categories>>
    /\ UNCHANGED dataVars
    /\ UNCHANGED transVars
    /\ UNCHANGED credVars

CatProjects ==
    {<<>>}
    \cup {<<[name |-> "a", id |-> 1, multiple |-> m, children |-> cs, lacks |-> "none"]>>
            \o other :
            m \in BOOLEAN, cs \in TransChildren,
            other \in {<<>>, <<[name |-> "b", id |-> 2, multiple |-> TRUE,
                                children |-> <<>>, lacks |-> "none"]>>}}

InitCats ==
    /\ kind = "categories"
    /\ server = EmptyMap
    /\ names = EmptyMap
    /\ pc = "idle"
    /\ call = NoCall
    /\ old = NoOld
    /\ ret = NoRet
    /\ reqs = <<>>
    /\ item = 0
    /\ resources = EmptyMap
    /\ DataIdle
    /\ TransIdle
    /\ CredIdle
    /\ categories \in CatProjects
    /\ ids = TreeOf(categories)

NextCats ==
    \/ CatUploadAllCall
    \/ CategoriesRename
    \/ CatUploadItem
    \/ CatUploadReturn
    \/ CatDeleteAllCall
    \/ CatDeleteItem
    \/ CatDeleteReturn
    \/ CatClearAllInProject

SpecCats == InitCats /\ [][NextCats]_vars

----------------------------------------------------------------------------
(* CredentialsStore (src/credentials.py) and BWUser.__init__               *)
(* (src/bwapi/bwproject.py)                                                *)

(* str.lower() over the letters that usernames are written with here. *)
Lower(c) == IF c = "A" THEN "a" ELSE IF c = "B" THEN "b" ELSE c
lower(s) == [j \in DOMAIN s |-> Lower(s[j])]

(* The pieces of s between the separators, empty pieces included. *)
RECURSIVE Pieces(_, _, _)
Pieces(s, seps, piece) ==
    IF s = <<>> THEN <<piece>>
    ELSE IF Head(s) \in seps THEN <<piece>> \o Pieces(Tail(s), seps, <<>>)
    ELSE Pieces(Tail(s), seps, Append(piece, Head(s)))

(* `for line in token_file`: the text up to each newline, and what follows *)
(* the last one when that is not empty.                                    *)
Lines(file) ==
    LET p == Pieces(file, {NL}, <<>>)
    IN  IF p[Len(p)] = <<>> THEN SubSeq(p, 1, Len(p) - 1) ELSE p

(* line.split(): the runs of characters between whitespace. *)
split(line) ==
    SelectSeq(Pieces(line, {TAB, NL, " "}, <<>>), LAMBDA x : x # <<>>)

(* sep.join(parts). *)
RECURSIVE join(_, _)
join(sep, parts) ==
    IF parts = <<>> THEN <<>>
    ELSE IF Len(parts) = 1 THEN parts[1]
    ELSE parts[1] \o <<sep>> \o join(sep, Tail(parts))

(* A dict, in insertion order: a sequence of [k, v] with distinct k. *)
DictHas(d, k) == \E j \in DOMAIN d : d[j].k = k
DictGet(d, k) == d[CHOOSE j \in DOMAIN d : d[j].k = k].v
DictSet(d, k, v) ==
    IF DictHas(d, k) THEN [j \in DOMAIN d |-> IF d[j].k = k THEN [k |-> k, v |-> v] ELSE d[j]]
    ELSE Append(d, [k |-> k, v |-> v])

(* _read, lines 70-81: a line that does not split into two fields is       *)
(* reported, and the assignment after the except clause then uses the user *)
(* and token of the line before, or raises UnboundLocalError when there is *)
(* none.                                                                   *)
RECURSIVE read_lines(_, _, _, _)
read_lines(ls, j, credentials, last) ==
    IF j > Len(ls) THEN [error |-> <<>>, credentials |-> credentials]
    ELSE LET fields == split(ls[j])
             now == IF Len(fields) = 2
                    THEN <<[user |-> fields[1], token |-> fields[2]]>>
                    ELSE last
         IN  IF now = <<>>
             THEN [error |-> <<"UnboundLocalError">>, credentials |-> credentials]
             ELSE read_lines(ls, j + 1,
                             DictSet(credentials, lower(now[1].user), now[1].token),
                             now)

read(file) == read_lines(Lines(file), 1, <<>>, <<>>)

(* _write, lines 64-68. *)
write(credentials) ==
    join(NL, [j \in DOMAIN credentials |->
                 join(TAB, <<credentials[j].k, credentials[j].v>>)])

(* Outcomes of an operation on the store. *)
CredNone == [t |-> "None", v |-> <<>>]
CredToken(token) == [t |-> "token", v |-> token]
CredRaise(error) == [t |-> error, v |-> <<>>]

(* A lookup under the username as it was given. *)
getitem_as_given(file, username) ==
    LET user_tokens == read(file)
    IN  IF user_tokens.error # <<>> THEN CredRaise(user_tokens.error[1])
        ELSE IF ~DictHas(user_tokens.credentials, username) THEN CredRaise("KeyError")
        ELSE CredToken(DictGet(user_tokens.credentials, username))

(* __getitem__, lines 30-33. *)
getitem(file, username) ==
    LET user_tokens == read(file)
    IN  IF user_tokens.error # <<>> THEN CredRaise(user_tokens.error[1])
        ELSE IF ~DictHas(user_tokens.credentials, lower(username))
        THEN CredRaise("KeyError")
        ELSE CredToken(DictGet(user_tokens.credentials, lower(username)))

(* __setitem__, lines 35-46: the file afterwards and the outcome. *)
setitem(file, username, token) ==
    LET r == read(file)
        credentials == r.credentials
    IN  IF r.error # <<>> THEN [file |-> file, result |-> CredRaise(r.error[1])]
        ELSE IF /\ DictHas(credentials, lower(username))
                /\ DictGet(credentials, lower(username)) = token
        THEN [file |-> file, result |-> CredNone]
        ELSE [file |-> write(DictSet(credentials, lower(username), token)),
              result |-> CredNone]

(* Usernames and access tokens, as sequences of characters. *)
MaxStores == 3
Usernames == {<<"a", "b">>, <<"A", "b">>, <<"A", "B">>, <<"b">>}
Tokens == {<<"x">>, <<"y", "z">>}

(* What the operation adds to the record of the tokens stored. *)
Stored(op, username, token, result) ==
    [op |-> op, username |-> username, token |-> token, result |-> result,
     stored |-> IF result = CredNone
                THEN Append(cred.stored, [username |-> username, token |-> token])
                ELSE cred.stored]

Looked(op, username, result) ==
    [op |-> op, username |-> username, token |-> <<>>, result |-> result,
     stored |-> cred.stored]

(* store[username] = token *)
StoreSetItem ==
    /\ Len(cred.stored) < MaxStores
    /\ \E username \in Usernames, token \in Tokens :
        LET out == setitem(token_file, username, token)
        IN  /\ token_file' = out.file
            /\ cred' = Stored("setitem", username, token, out.result)
    /\ UNCHANGED catalogVars
    /\ UNCHANGED dataVars
    /\ UNCHANGED treeVars
    /\ UNCHANGED transVars

(* store[username] *)
StoreGetItem ==
    /\ \E username \in Usernames :
        cred' = Looked("getitem", username, getitem(token_file, username))
    /\ UNCHANGED token_file
    /\ UNCHANGED catalogVars
    /\ UNCHANGED dataVars
    /\ UNCHANGED treeVars
    /\ UNCHANGED transVars

(* BWUser(username=..., password=...), lines 57-62: _get_auth returns the  *)
(* username as given and the access token of the server's answer, or       *)
(* raises KeyError when the answer has none (lines 88-102); the token is   *)
(* stored under the username.                                              *)
PasswordLogin ==
    /\ Len(cred.stored) < MaxStores
    /\ \E username \in Usernames, answer \in {<<>>} \cup {<<t>> : t \in Tokens} :
        IF answer = <<>>
        THEN /\ cred' = Stored("login_password", username, <<>>, CredRaise("KeyError"))
             /\ UNCHANGED token_file
        ELSE LET out == setitem(token_file, username, answer[1])
             IN  /\ token_file' = out.file
                 /\ cred' = Stored("login_password", username, answer[1], out.result)
    /\ UNCHANGED catalogVars
    /\ UNCHANGED dataVars
    /\ UNCHANGED treeVars
    /\ UNCHANGED transVars

(* BWUser(token=..., username=...), lines 54-56 and 71-86: the token's     *)
(* owner is asked of the server (<<>>: the token is not valid); username   *)
(* is <<>> for None.                                                       *)
TokenLogin ==
    /\ Len(cred.stored) < MaxStores
    /\ \E token \in Tokens, username \in {<<>>} \cup Usernames,
          user \in {<<>>} \cup Usernames :
        IF user = <<>> \/ (username # <<>> /\ lower(user) # lower(username))
        THEN /\ cred' = Stored("login_token", username, token, CredRaise("KeyError"))
             /\ UNCHANGED token_file
        ELSE LET self_username == IF username = <<>> THEN user ELSE username
                 out == setitem(token_file, self_username, token)
             IN  /\ token_file' = out.file
                 /\ cred' = Stored("login_token", self_username, token, out.result)
    /\ UNCHANGED catalogVars
    /\ UNCHANGED dataVars
    /\ UNCHANGED treeVars
    /\ UNCHANGED transVars

(* BWUser(username=...), lines 63-65: the token is read from the store. *)
UsernameLogin ==
    /\ \E username \in Usernames :
        cred' = Looked("login_username", username, getitem(token_file, username))
    /\ UNCHANGED token_file
    /\ UNCHANGED catalogVars
    /\ UNCHANGED dataVars
    /\ UNCHANGED treeVars
    /\ UNCHANGED transVars

InitCred ==
    /\ kind = "queries"
    /\ server = EmptyMap
    /\ names = EmptyMap
    /\ pc = "idle"
    /\ call = NoCall
    /\ old = NoOld
    /\ ret = NoRet
    /\ reqs = <<>>
    /\ item = 0
    /\ resources = EmptyMap
    /\ DataIdle
    /\ TreeIdle
    /\ TransIdle
    /\ CredIdle

NextCred ==
    \/ StoreSetItem
    \/ StoreGetItem
    \/ PasswordLogin
    \/ TokenLogin
    \/ UsernameLogin

SpecCred == InitCred /\ [][NextCred]_vars

----------------------------------------------------------------------------

Next ==
    \/ GetResourceId
    \/ GetResourceIdOfResult
    \/ CheckResourceExists
    \/ Get
    \/ UploadAllCall
    \/ RenameCall
    \/ UploadAllItem
    \/ UploadAllReturn
    \/ Return

Spec == Init /\ [][Next]_vars

(* One upload_all call on a fresh instance of any kind whose project has   *)
(* at most the resource with id 1, with a transport that may refuse a      *)
(* request and items that may be incomplete.                               *)
InitFault ==
    /\ kind \in Kinds
    /\ server \in {c \in Catalogs : DOMAIN c \subseteq {1}}
    /\ names = server
    /\ pc = "idle"
    /\ call = NoCall
    /\ old = NoOld
    /\ ret = NoRet
    /\ reqs = <<>>
    /\ item = 0
    /\ resources = EmptyMap
    /\ DataIdle
    /\ TreeIdle
    /\ TransIdle
    /\ CredIdle

NextFault ==
    \/ UploadAllFault
    \/ UploadAllItem
    \/ UploadAllReturn

SpecFault == InitFault /\ [][NextFault]_vars

(* One call of upload_all with complete items or of delete_all, with a     *)
(* transport that may refuse one request of the call.                      *)
UploadAllRefused == UploadAllCallOf(DataLists, 0..(MaxBatch + 1))

NextAbort ==
    \/ UploadAllRefused
    \/ UploadAllItem
    \/ UploadAllReturn
    \/ DeleteAllCall
    \/ DeleteAllItem
    \/ DeleteAllReturn

SpecAbort == Init /\ [][NextAbort]_vars

(* bare_request alone, and upload_all (default flags, items without       *)
(* new_name) with one response of the server per item.                     *)
Bodies == {[name |-> n, id |-> i] : n \in {"a"}, i \in 0..1}
AnsweredLists ==
    UNION {[1..n -> {d \in DataItems : d.new_name = <<>>}] : n \in 0..MaxBatch}

BareRequest ==
    /\ pc = "idle"
    /\ \E response \in Responses, json \in Bodies :
        /\ call' = [NoCall EXCEPT !.op = "bare_request", !.answers = <<response>>,
                                   !.listing = <<json>>]
        /\ ret' = bare_request(response, ResourceInfo(json))
    /\ old' = [names |-> names, server |-> server]
    /\ pc' = "returned"
    /\ reqs' = <<>>
    /\ UNCHANGED <<kind, server, names, item, resources>>
    /\ UNCHANGED dataVars
    /\ UNCHANGED treeVars
    /\ UNCHANGED transVars
    /\ UNCHANGED credVars

UploadAllAnswered ==
    /\ pc = "idle"
    /\ \E data_list \in AnsweredLists :
       \E answers \in [1..Len(data_list) -> Responses] :
        /\ data_list # <<>>
        /\ Cardinality(DOMAIN server) + Cardinality(Creates(names, data_list))
               <= Cardinality(Ids)
        /\ call' = [NoCall EXCEPT !.op = "upload_all", !.data_list = data_list,
                                   !.answers = answers]
    /\ old' = [names |-> names, server |-> server]
    /\ pc' = "upload"
    /\ item' = 1
    /\ resources' = EmptyMap
    /\ reqs' = <<>>
    /\ UNCHANGED <<kind, server, names, ret>>
    /\ UNCHANGED dataVars
    /\ UNCHANGED treeVars
    /\ UNCHANGED transVars
    /\ UNCHANGED credVars

NextTransport ==
    \/ BareRequest
    \/ UploadAllAnswered
    \/ UploadAllItem
    \/ UploadAllReturn

SpecTransport == Init /\ [][NextTransport]_vars

(* The operations that change what is on the server besides upload_all,    *)
(* one after another on one instance.                                      *)
NextOps ==
    \/ DeleteAllCall
    \/ ClearAllInProject
    \/ DeleteAllItem
    \/ DeleteAllReturn
    \/ RenameCall
    \/ UploadAllItem
    \/ UploadAllReturn
    \/ DeepDelete
    \/ Reload
    \/ Return

SpecOps == Init /\ [][NextOps]_vars

----------------------------------------------------------------------------
(* Properties *)

(* The ids that carry a name in a catalog. *)
Carriers(nm, s) == {rid \in DOMAIN nm : nm[rid] = s}

Resolved == pc = "returned" /\ call.op = "get_resource_id"

IsMutation(r) == r.endpoint = "resource" /\ r.verb \in {"PUT", "POST", "DELETE"}

(* C1: when the name passed to get_resource_id is carried by two or more   *)
(* ids of the catalog, the call raises AmbiguityError carrying exactly the *)
(* colliding ids; it returns none of them.                                 *)
C1_AmbiguousNameRaises ==
    (/\ Resolved
     /\ call.ref.t = "str"
     /\ Cardinality(Carriers(old.names, call.ref.s)) >= 2)
    => ret = AmbiguityError(Carriers(old.names, call.ref.s))

C1_Witness ==
    /\ Resolved
    /\ call.ref.t = "str"
    /\ Cardinality(Carriers(names, call.ref.s)) >= 2
    /\ ret.t = "AmbiguityError"
    /\ Cardinality(ret.ids) >= 2

(* C2: upload_all with create_only=True, for every kind: an item whose     *)
(* name is already in the catalog gets no update (PUT to an id carrying    *)
(* the name) and no create (POST of the name), and the returned mapping    *)
(* has no entry for the name.                                              *)
C2_CreateOnlySkipsExisting ==
    (pc = "returned" /\ call.op = "upload_all" /\ call.create_only)
    => \A n \in 1..Len(call.data_list) :
         LET name == call.data_list[n].name
         IN  Carriers(old.names, name) # {}
             => /\ \A q \in 1..Len(reqs) :
                     /\ ~(/\ reqs[q].verb = "PUT"
                          /\ reqs[q].addr[1].t = "id"
                          /\ reqs[q].addr[1].i \in Carriers(old.names, name))
                     /\ ~(reqs[q].verb = "POST" /\ reqs[q].pname = <<name>>)
                /\ ret.t = "map" => name \notin DOMAIN ret.map

(* C3: upload_all with default flags on one item (no new_name): when       *)
(* exactly one id carries the name, the only mutation is one PUT addressed *)
(* to that id and the name still resolves to it after the reload; when no  *)
(* id carries the name, the only mutation is one POST and the returned     *)
(* mapping maps the name to the id the server assigned.                    *)
C3_UpsertUpdatesOrCreates ==
    (/\ pc = "returned"
     /\ call.op = "upload_all"
     /\ ~call.create_only
     /\ ~call.modify_only
     /\ Len(call.data_list) = 1
     /\ call.data_list[1].new_name = <<>>)
    => LET name == call.data_list[1].name
           carriers == Carriers(old.names, name)
           mutations == SelectSeq(reqs, IsMutation)
       IN  /\ Cardinality(carriers) = 1
              => /\ Len(mutations) = 1
                 /\ mutations[1].verb = "PUT"
                 /\ \E rid \in carriers :
                      /\ mutations[1].addr = <<RetId(rid)>>
                      /\ get_resource_id(names, RefStr(name)) = RetId(rid)
           /\ carriers = {}
              => /\ Len(mutations) = 1
                 /\ mutations[1].verb = "POST"
                 /\ ret.t = "map"
                 /\ name \in DOMAIN ret.map
                 /\ ret.map[name] \in DOMAIN server \ DOMAIN old.server
                 /\ server[ret.map[name]] = name

(* C6: get_resource_id raises KeyError for an int that is not a key of the *)
(* catalog and for a (non-empty) string that matches no name and does not  *)
(* parse to a key of the catalog; an id it returns is a key of the catalog. *)
C6_UnknownReferenceRaises ==
    Resolved
    => /\ (call.ref.t = "int" /\ call.ref.i \notin DOMAIN old.names)
          => ret = RaiseKeyError
       /\ (/\ call.ref.t = "str"
           /\ call.ref.s # ""
           /\ Carriers(old.names, call.ref.s) = {}
           /\ (CanParseInt(call.ref.s) => IntOf(call.ref.s) \notin DOMAIN old.names))
          => ret = RaiseKeyError
       /\ ret.t = "id" => ret.i \in DOMAIN old.names

(* C7: for a string, the name match comes first: a string carried as a     *)
(* name by exactly one id resolves to that id, also when the string reads  *)
(* as another id of the catalog; an id that does not carry the string is   *)
(* returned only when no id carries it, and then it is the number the      *)
(* string reads as (returned for every such id other than 0, for which the *)
(* closing truth test of line 98 yields None).                             *)
C7_NameBeforeNumericId ==
    (Resolved /\ call.ref.t = "str" /\ call.ref.s # "")
    => LET s == call.ref.s
           carriers == Carriers(old.names, s)
       IN  /\ Cardinality(carriers) = 1 => \E rid \in carriers : ret = RetId(rid)
           /\ (ret.t = "id" /\ ret.i \notin carriers)
              => carriers = {} /\ CanParseInt(s) /\ ret.i = IntOf(s)
           /\ (/\ carriers = {}
               /\ CanParseInt(s)
               /\ IntOf(s) \in DOMAIN old.names
               /\ IntOf(s) # 0)
              => ret = RetId(IntOf(s))

(* A resource named "1" whose id is not 1, next to a resource with id 1. *)
C7_Witness ==
    /\ Resolved
    /\ call.ref = RefStr("1")
    /\ 1 \in DOMAIN names
    /\ names[1] # "1"
    /\ \E rid \in DOMAIN names : rid # 1 /\ names[rid] = "1" /\ ret = RetId(rid)

(* C8: for a name carried by exactly one id, resolving the id that the     *)
(* name resolved to gives that same id.                                    *)
C8_ResolveIdempotent ==
    (/\ pc = "returned"
     /\ call.op = "get_resource_id_of_result"
     /\ call.ref.t = "str"
     /\ Cardinality(Carriers(names, call.ref.s)) = 1)
    => ret = call.first[1]

(* C9: check_resource_exists returns True when get_resource_id returns,    *)
(* False when it raises KeyError, and raises AmbiguityError itself when    *)
(* the name is carried by more than one id.                                 *)
C9_ExistsFollowsResolve ==
    (pc = "returned" /\ call.op = "check_resource_exists")
    => LET r == get_resource_id(old.names, call.ref)
       IN  /\ ~IsRaise(r) => ret = RetBool(TRUE)
           /\ r.t = "KeyError" => ret = RetBool(FALSE)
           /\ (call.ref.t = "str" /\ Cardinality(Carriers(old.names, call.ref.s)) > 1)
              => ret = AmbiguityError(Carriers(old.names, call.ref.s))

C9_Witness ==
    /\ pc = "returned"
    /\ call.op = "check_resource_exists"
    /\ call.ref.t = "str"
    /\ Cardinality(Carriers(names, call.ref.s)) > 1
    /\ ret.t = "AmbiguityError"

(* C10: get_resource_id of an int that is a key of the catalog, 0          *)
(* included, returns that int.                                             *)
C10_KnownIdReturned ==
    (Resolved /\ call.ref.t = "int" /\ call.ref.i \in DOMAIN old.names)
    => ret = RetId(call.ref.i)

(* upload_all, continued *)

Uploaded == pc = "returned" /\ call.op = "upload_all"

(* The positions of the listing requests (reloads) in a request sequence. *)
Reloads(rq) == {q \in 1..Len(rq) : rq[q] = ListingRequest}

(* The positions of the create, update and delete requests. *)
Mutations(rq) == {q \in 1..Len(rq) : IsMutation(rq[q])}

C12_WitnessSkipped ==
    /\ Uploaded
    /\ Len(call.data_list) = MaxBatch
    /\ Mutations(reqs) = {}
    /\ Cardinality(Reloads(reqs)) = 1

(* C14: when the transport raises on the put or post of item k, upload_all *)
(* raises that error at item k: the refused request is the last request of *)
(* the call, so nothing is sent for a later item, nothing is deleted or    *)
(* reloaded, and what the earlier items changed is still on the server     *)
(* (each created resource is there, each updated id has the name of the    *)
(* last update sent to it).  A call that returns although k was set has    *)
(* not sent a put or post for every item.                                  *)
C14_RemoteErrorAbortsBatch ==
    (Uploaded /\ call.fault \in 1..Len(call.data_list))
    => /\ ret = RaiseRuntimeError
          => /\ item = call.fault
             /\ reqs # <<>>
             /\ Len(reqs) \in Mutations(reqs)
             /\ Reloads(reqs) = {}
             /\ \A q \in Mutations(reqs) : reqs[q].verb # "DELETE"
             /\ names = old.names
             /\ Cardinality(DOMAIN server \ DOMAIN old.server)
                    = Cardinality({q \in Mutations(reqs) :
                                      q < Len(reqs) /\ reqs[q].verb = "POST"})
             /\ \A q \in Mutations(reqs) :
                   (/\ q < Len(reqs)
                    /\ reqs[q].verb = "PUT"
                    /\ \A r \in Mutations(reqs) :
                          (q < r /\ r < Len(reqs)) => reqs[r].addr # reqs[q].addr)
                   => server[reqs[q].addr[1].i] = reqs[q].pname[1]
       /\ ~IsRaise(ret)
          => Cardinality(Mutations(reqs)) < Len(call.data_list)

(* The transport refuses the second item of three: the first item's        *)
(* change is on the server, the third item was never sent.                 *)
C14_Witness ==
    /\ Uploaded
    /\ Len(call.data_list) = 3
    /\ call.fault = 2
    /\ ret = RaiseRuntimeError
    /\ Cardinality(Mutations(reqs)) = 2
    /\ server # old.server
    /\ names = old.names

(* The item lacks a field that its kind requires. *)
LacksRequired(k, data) ==
    data.lacks = "name" \/ (data.lacks = "field" /\ k # "tags")

(* Item m of the running batch is one the loop sends a put or post for. *)
Sends(m) ==
    LET exists == check_resource_exists(old.names, RefStr(call.data_list[m].name))
    IN  IF exists.b THEN ~PassedFlag(kind, call.create_only)
        ELSE ~PassedFlag(kind, call.modify_only)

(* C15: for every kind, when the loop of upload_all comes to an item that  *)
(* lacks a required field, the call raises KeyError there and no request   *)
(* has been issued for that item: the requests of the call are those of    *)
(* the earlier items (their _fill_data reads and their puts and posts).    *)
C15_MissingFieldRaisesFirst ==
    (/\ Uploaded
     /\ item \in 1..Len(call.data_list)
     /\ LacksRequired(kind, call.data_list[item]))
    => /\ ret = RaiseKeyError
       /\ Len(reqs) = Len(fill_data_reads(kind)) * (item - 1)
                         + Cardinality({m \in 1..(item - 1) : Sends(m)})

(* C17: every update request of upload_all carries in its payload the id   *)
(* it is addressed to, an id of the catalog; every create request carries  *)
(* no id; every payload carries a name.                                    *)
C17_PayloadIdOnlyOnUpdate ==
    Uploaded
    => \A q \in Mutations(reqs) :
         /\ reqs[q].pname # <<>>
         /\ reqs[q].verb = "PUT"
            => /\ reqs[q].pid = reqs[q].addr
               /\ reqs[q].pid[1].t = "id"
               /\ reqs[q].pid[1].i \in DOMAIN old.names
         /\ reqs[q].verb = "POST" => reqs[q].pid = <<>>

(* C18: upload_all with modify_only=True on one item, for every kind: when *)
(* no id of the catalog carries the item's name, no create (and no other   *)
(* mutation) is requested, no error is raised, the server gets no resource *)
(* of that name, and the returned mapping has no entry for it.             *)
C18_ModifyOnlySkipsAbsent ==
    (/\ Uploaded
     /\ call.modify_only
     /\ Len(call.data_list) = 1
     /\ Carriers(old.names, call.data_list[1].name) = {})
    => LET name == call.data_list[1].name
       IN  /\ Mutations(reqs) = {}
           /\ ~IsRaise(ret)
           /\ server = old.server
           /\ ret.t = "map" => name \notin DOMAIN ret.map

(* C19: upload_all returns, for every kind, a mapping with one entry per   *)
(* item that was created or updated, from the name in the server's        *)
(* response (the new name when the item renames) to the id in the response, *)
(* and with no other entry.                                                *)
C19_ReturnsResponseMapping ==
    (Uploaded /\ ~IsRaise(ret))
    => /\ ret.t = "map"
       /\ DOMAIN ret.map = {reqs[q].pname[1] : q \in Mutations(reqs)}
       /\ \A q \in Mutations(reqs) :
            LET name == reqs[q].pname[1]
                later == {r \in Mutations(reqs) : r > q /\ reqs[r].pname = <<name>>}
            IN  later = {}
                => IF reqs[q].verb = "PUT"
                   THEN ret.map[name] = reqs[q].addr[1].i
                   ELSE /\ ret.map[name] \in DOMAIN server \ DOMAIN old.server
                        /\ server[ret.map[name]] = name

(* delete_all and the other operations that change the server *)

(* The ids of a catalog that a reference denotes: the id itself, the ids   *)
(* that carry the name, or (when none carries it) the id the string reads  *)
(* as.  One id: the reference resolves; none: it is unresolvable; more:    *)
(* it is ambiguous.                                                        *)
Denotes(nm, ref) ==
    IF ref.t = "int" THEN {ref.i} \cap DOMAIN nm
    ELSE IF ref.t = "none" THEN {}
    ELSE IF Carriers(nm, ref.s) # {} THEN Carriers(nm, ref.s)
    ELSE IF CanParseInt(ref.s) THEN {IntOf(ref.s)} \cap DOMAIN nm
    ELSE {}

(* C11: when a mutating operation (upload_all, delete_all, rename,         *)
(* deep_delete, clear_all_in_project) returns normally, the names of the   *)
(* instance it was called on equal the server's listing for its kind.      *)
C11_CacheEqualsServerAfterMutation ==
    (/\ pc = "returned"
     /\ call.op \in {"upload_all", "delete_all", "rename", "deep_delete",
                      "clear_all_in_project"}
     /\ ~IsRaise(ret))
    => names = server

(* C16: delete_all resolves every reference before it deletes anything:    *)
(* when a reference of the list is unresolvable or ambiguous the call      *)
(* raises, has issued no request, and names and the server are as before;  *)
(* otherwise (the references denoting different ids, the cache being the   *)
(* server's listing and the transport refusing nothing) it issues one      *)
(* delete per reference, addressed to the id the reference resolves to,    *)
(* in list order, then reloads once and returns.                           *)
C16_DeleteAllResolvesFirst ==
    (pc = "returned" /\ call.op = "delete_all")
    => IF \E n \in 1..Len(call.refs) :
              Cardinality(Denotes(old.names, call.refs[n])) # 1
       THEN /\ IsRaise(ret)
            /\ reqs = <<>>
            /\ names = old.names
            /\ server = old.server
       ELSE (/\ call.fault = 0
             /\ old.names = old.server
             /\ \A n, m \in 1..Len(call.refs) :
                    n # m => Denotes(old.names, call.refs[n])
                             # Denotes(old.names, call.refs[m]))
            => /\ ret = RetNone
               /\ reqs = [n \in 1..Len(call.refs) |->
                             Request("DELETE",
                                     <<RetId(CHOOSE x \in Denotes(old.names, call.refs[n])
                                                 : TRUE)>>,
                                     <<>>, <<>>)]
                          \o <<ListingRequest>>
               /\ names = server

(* C13: reload replaces the cached mapping in one step, for a catalog      *)
(* (names) and for the category tree (ids): when it returns normally the   *)
(* mapping equals the server's listing, and when it raises (no listing in  *)
(* the answer, or an entry of the listing lacks a key) the mapping is as   *)
(* it was before the call.                                                 *)
C13_ReloadIsAtomic ==
    /\ (pc = "returned" /\ call.op = "reload")
       => names = IF IsRaise(ret) THEN old.names ELSE server
    /\ (pc = "returned" /\ call.op = "categories_reload")
       => ids = IF IsRaise(ret) THEN old.names ELSE TreeOf(categories)

(* Page retrieval *)

(* The index the loop starts at: the page keyword, 0 without one. *)
StartPage == IF call.kwpage # <<>> THEN call.kwpage[1] ELSE 0

Max(a, b) == IF a >= b THEN a ELSE b
Min(a, b) == IF a <= b THEN a ELSE b

(* The first index at or after s for which the server returns an empty page. *)
FirstEmptyFrom(pgs, s) ==
    CHOOSE k \in s..Max(s, Len(pgs)) :
        /\ PageAt(pgs, k) = OkPage(0)
        /\ \A j \in s..(k - 1) : PageAt(pgs, j) # OkPage(0)

(* No page with an index in a..b is an error response. *)
NoErrorIn(pgs, a, b) == \A j \in a..b : PageAt(pgs, j) \in {OkPage(n) : n \in 0..MaxPageLen}

(* The records of pages a..b, in page order. *)
RECURSIVE ConcatPages(_, _, _)
ConcatPages(pgs, a, b) ==
    IF a > b THEN <<>> ELSE Records(pgs, a) \o ConcatPages(pgs, a + 1, b)

(* The indices a..b as a sequence. *)
Indices(a, b) == [n \in 1..(b - a + 1) |-> a + n - 1]

Retrieved == dpc = "done" /\ call.op = "get_mentions"

(* C4 as stated: without a page limit, when the first empty page is at     *)
(* index k, get_mentions returns the records of pages 0..k-1 in page order *)
(* and requests exactly the indices 0..k.                                  *)
C4_StopsAtFirstEmptyPage_Stated ==
    (/\ Retrieved
     /\ max_pages = <<>>
     /\ NoErrorIn(pages, 0, FirstEmptyFrom(pages, 0)))
    => LET k == FirstEmptyFrom(pages, 0)
       IN  /\ all_mentions = ConcatPages(pages, 0, k - 1)
           /\ fetched = Indices(0, k)

(* C4: without a page limit, get_mentions starts at index s (the page      *)
(* keyword, 0 without one); when the first empty page at or after s is at  *)
(* index k, it returns the records of pages s..k-1 in page order and       *)
(* requests exactly the indices s..k, so never index k+1; a page with      *)
(* fewer records than a full page does not end the loop.                   *)
C4_StopsAtFirstEmptyPage ==
    (Retrieved /\ max_pages = <<>>)
    => LET k == FirstEmptyFrom(pages, StartPage)
       IN  /\ all_mentions = ConcatPages(pages, StartPage, k - 1)
           /\ fetched = Indices(StartPage, k)

(* A short page in the middle: full, short, full, empty, from index 0. *)
C4_Witness ==
    /\ Retrieved
    /\ max_pages = <<>>
    /\ StartPage = 0
    /\ Len(pages) >= 3
    /\ PageAt(pages, 0).n = MaxPageLen
    /\ PageAt(pages, 1).n > 0
    /\ PageAt(pages, 1).n < MaxPageLen
    /\ PageAt(pages, 2).n > 0
    /\ Len(fetched) = 4
    /\ Len(all_mentions) = PageAt(pages, 0).n + PageAt(pages, 1).n + PageAt(pages, 2).n

(* C5 as stated: with max_pages = m, get_mentions issues at most m         *)
(* requests and returns the records of the first min(m, k) pages, k the    *)
(* index of the first empty page.                                          *)
C5_PageLimit_Stated ==
    (/\ Retrieved
     /\ max_pages # <<>>
     /\ NoErrorIn(pages, 0, FirstEmptyFrom(pages, 0)))
    => LET m == max_pages[1]
           k == FirstEmptyFrom(pages, 0)
       IN  /\ Len(fetched) <= m
           /\ all_mentions = ConcatPages(pages, 0, Min(m, k) - 1)

(* C5: with max_pages = m and start index s (the page keyword, 0 without   *)
(* one), get_mentions issues at most m requests, none for an index >= m,   *)
(* and returns the records of pages s..min(m, k)-1, k the index of the     *)
(* first empty page at or after s.                                         *)
C5_PageLimit ==
    (Retrieved /\ max_pages # <<>>)
    => LET m == max_pages[1]
           k == FirstEmptyFrom(pages, StartPage)
       IN  /\ Len(fetched) <= m
           /\ \A n \in 1..Len(fetched) : fetched[n] < m
           /\ fetched = Indices(StartPage, Min(m - 1, k))
           /\ all_mentions = ConcatPages(pages, StartPage, Min(m, k) - 1)

(* max_pages = 2 against three pages with records: two pages returned,    *)
(* index 2 never requested.                                                *)
C5_Witness ==
    /\ Retrieved
    /\ max_pages = <<2>>
    /\ StartPage = 0
    /\ Len(pages) >= 3
    /\ \A j \in 0..2 : PageAt(pages, j).n > 0
    /\ fetched = <<0, 1>>
    /\ Len(all_mentions) = PageAt(pages, 0).n + PageAt(pages, 1).n

(* The body carries an error field or lacks the results field. *)
Malformed(mentions) == mentions.errors # "absent" \/ ~mentions.results

(* C20: when the response for page j carries an error field or lacks the   *)
(* results field, get_mentions raises, hands the caller none of the        *)
(* records of the pages before j, and has requested exactly the indices up *)
(* to j, so never j+1; a call that returns a list has met no such page.    *)
C20_MalformedPageAborts ==
    (dpc \in {"done", "raised"} /\ call.op = "get_mentions" /\ fetched # <<>>)
    => LET j == fetched[Len(fetched)]
       IN  /\ \A n \in 1..(Len(fetched) - 1) : ~Malformed(PageAt(pages, fetched[n]))
           /\ IF Malformed(PageAt(pages, j))
              THEN /\ dpc = "raised"
                   /\ IsRaise(ret)
                   /\ all_mentions = <<>>
                   /\ fetched = Indices(StartPage, j)
              ELSE dpc = "done" /\ ~IsRaise(ret)

(* Two pages with records, then a body without a results field. *)
C20_Witness ==
    /\ dpc = "raised"
    /\ call.op = "get_mentions"
    /\ fetched = <<0, 1, 2>>
    /\ PageAt(pages, 0).n > 0
    /\ PageAt(pages, 1).n > 0
    /\ PageAt(pages, 2) = NoResultsPage
    /\ ret = RaiseKeyError
    /\ all_mentions = <<>>

(* C21 as stated: the first page request of a get_mentions call carries    *)
(* index 0 and each later one the previous index plus one; the request     *)
(* for the next index is issued only when the records of every index       *)
(* requested so far have been appended.                                    *)
C21_SequentialPages_Stated ==
    call.op = "get_mentions"
    => /\ fetched = Indices(0, Len(fetched) - 1)
       /\ dpc = "loop"
          => all_mentions = ConcatPages(pages, 0, Len(fetched) - 1)

(* C21: the first page request of a get_mentions call carries index s (the *)
(* page keyword, 0 without one) and each later one the previous index plus *)
(* one, so that no index is requested twice or skipped; whenever the loop  *)
(* is about to issue a request, it is the one for the index after the last *)
(* one requested, and the records of every index requested so far have     *)
(* been appended, in order.                                                *)
C21_SequentialPages ==
    call.op = "get_mentions"
    => /\ fetched = Indices(StartPage, StartPage + Len(fetched) - 1)
       /\ dpc = "loop"
          => /\ params.page = StartPage + Len(fetched)
             /\ all_mentions = ConcatPages(pages, StartPage, params.page - 1)

(* Three requests in a row from index 0, the loop still running. *)
C21_Witness ==
    /\ call.op = "get_mentions"
    /\ dpc = "loop"
    /\ StartPage = 0
    /\ fetched = <<0, 1, 2>>
    /\ params.page = 3
    /\ Len(all_mentions) >= 3

(* C22: every page request of get_mentions for a query or group that the   *)
(* caller names carries, as its queryId / queryGroupId parameter, the id   *)
(* that carries the name in the catalog, never the name.                   *)
C22_RequestCarriesNumericId ==
    (call.op = "get_mentions" /\ fetched # <<>>)
    => /\ params.resourceId.t = "int"
       /\ params.resourceId.i \in DOMAIN names
       /\ names[params.resourceId.i] = call.ref.s

(* Translation of filter values *)

TranslatedBy(attributes) ==
    pc = "returned" /\ call.op = "name_to_id" /\ call.attribute \in attributes

(* C23: for every translator, _name_to_id of category or xcategory with    *)
(* {parent: [c1, ..., cn]}, the children being children of the parent in   *)
(* the cached tree, returns the list of the n children's ids, one per      *)
(* child, in the order the children were given.                            *)
C23_CategoryChildrenInOrder ==
    (/\ TranslatedBy({"category", "xcategory"})
     /\ call.setting.t = "dict"
     /\ call.setting.p \in DOMAIN ids
     /\ \A j \in DOMAIN call.setting.l :
            call.setting.l[j].s \in DOMAIN ids[call.setting.p].children)
    => /\ translated.t = "list"
       /\ Len(translated.l) = Len(call.setting.l)
       /\ \A j \in DOMAIN call.setting.l :
              translated.l[j] = RefInt(ids[call.setting.p].children[call.setting.l[j].s])

(* The names a tag filter is given: the string, or the strings of the list. *)
TagNamesGiven ==
    IF call.setting.t = "str" THEN <<call.setting.s>>
    ELSE [j \in DOMAIN call.setting.l |-> call.setting.l[j].s]

(* C24: for every translator, _name_to_id of tag, xtag or tags with a tag   *)
(* name or a list of tag names, each carried by one id of the tag catalog,  *)
(* returns the list of those ids, with the length and the order of the      *)
(* input (so never an empty list or None for a non-empty list of names).    *)
C24_TagNamesResolvedInOrder ==
    (/\ TranslatedBy({"tag", "xtag", "tags"})
     /\ \/ call.setting.t = "str"
        \/ call.setting.t = "list" /\ \A j \in DOMAIN call.setting.l :
                                         call.setting.l[j].t = "str"
     /\ \A j \in DOMAIN TagNamesGiven :
            Cardinality(Carriers(tags, TagNamesGiven[j])) = 1)
    => /\ translated.t = "list"
       /\ Len(translated.l) = Len(TagNamesGiven)
       /\ \A j \in DOMAIN TagNamesGiven :
              /\ translated.l[j].t = "int"
              /\ translated.l[j].i \in Carriers(tags, TagNamesGiven[j])

FilledParams == pc = "returned" /\ call.op = "fill_params"

(* The filters of the call whose given value is not of the declared type. *)
IllTyped ==
    {j \in DOMAIN call.data : call.data[j].setting.t # FilterType(call.data[j].param)}

(* The filters of the call whose value is well typed but not one of the    *)
(* filter's enumerated values.                                             *)
OutOfOptions ==
    {j \in DOMAIN call.data :
        /\ j \notin IllTyped
        /\ SpecialOptions(call.data[j].param) # {}
        /\ call.data[j].setting \notin SpecialOptions(call.data[j].param)}

(* C25: when a retrieval is given a filter value that is not of the        *)
(* filter's declared type (a single string where a list of ids is          *)
(* declared, for tag and for the list-backed authorGroup), the call        *)
(* raises and has issued no request of any kind.                           *)
C25_IllTypedFilterRaisesBeforeRequests ==
    (FilledParams /\ IllTyped # {})
    => IsRaise(ret) /\ reqs = <<>>

(* C26: when more than one filter of a retrieval is invalid, translation   *)
(* and validation are attempted for every filter of the request, and the   *)
(* call raises.                                                            *)
C26_EveryFilterAttempted ==
    (FilledParams /\ Cardinality(IllTyped \cup OutOfOptions) > 1)
    => IsRaise(ret) /\ item = Len(call.data)

(* Category uploads, renames and deletes *)

(* The child names of a payload, and the payload's entry for a child the   *)
(* tree had before the call.                                               *)
SentNames(payload) == {payload.children[j].name : j \in DOMAIN payload.children}
KeptChild(parent, child) ==
    [name |-> child, id |-> <<old.names[parent].children[child]>>]

(* The updates among the requests of the call. *)
CatUpdates == SelectSeq(reqs, LAMBDA r : r.verb = "PUT")

(* C27 (a call that uploads one category and names no child twice): for a  *)
(* category the tree has,                                                  *)
(* without overwrite_children every update sent carries the union of the   *)
(* existing and the supplied children, each name once and the existing     *)
(* ones with their ids, and with overwrite_children exactly the supplied   *)
(* children; after the reload the tree's children of that parent are what  *)
(* the claim says is sent.                                                 *)
C27_UploadChildren ==
    (/\ pc = "returned"
     /\ call.op = "cat_upload_all"
     /\ Len(call.data_list) = 1
     /\ ~call.create_only
     /\ call.data_list[1].name \in DOMAIN old.names
     /\ \A j, n \in DOMAIN call.data_list[1].children :
          call.data_list[1].children[j] = call.data_list[1].children[n] => j = n
     /\ ~IsRaise(ret))
    => LET data == call.data_list[1]
           existing == DOMAIN old.names[data.name].children
           supplied == {data.children[j] : j \in DOMAIN data.children}
           expected == IF call.overwrite_children THEN supplied
                       ELSE supplied \cup existing
       IN  /\ \A n \in DOMAIN CatUpdates :
                LET payload == CatUpdates[n].payload[1]
                IN  /\ SentNames(payload) = expected
                    /\ call.overwrite_children
                       => [j \in DOMAIN payload.children |-> payload.children[j].name]
                          = data.children
                    /\ ~call.overwrite_children
                       => Len(payload.children) = Cardinality(expected)
                    /\ \A c \in existing \cap expected :
                          KeptChild(data.name, c)
                          \in {payload.children[j] : j \in DOMAIN payload.children}
           /\ data.name \in DOMAIN ids
           /\ DOMAIN ids[data.name].children = expected

(* C28: rename(name, new_name) of a category the tree has issues one       *)
(* update, addressed to the category's id, whose payload carries new_name, *)
(* the category's flag and exactly its children with their ids; when the   *)
(* call returns, the tree has new_name with the id, flag and children that *)
(* name had, and nothing under name.                                       *)
C28_RenameKeepsChildrenAndFlag ==
    (/\ pc = "returned"
     /\ call.op = "cat_rename"
     /\ call.ref.s \in DOMAIN old.names)
    => LET name == call.ref.s
           was == old.names[name]
       IN  /\ Len(CatUpdates) = 1
           /\ \A n \in DOMAIN reqs : reqs[n].verb \in {"PUT", "GET"}
           /\ CatUpdates[1].addr = <<was.id>>
           /\ LET payload == CatUpdates[1].payload[1]
              IN  /\ payload.name = call.new_name
                  /\ payload.multiple = was.multiple
                  /\ Len(payload.children) = Cardinality(DOMAIN was.children)
                  /\ {payload.children[j] : j \in DOMAIN payload.children}
                     = {KeptChild(name, c) : c \in DOMAIN was.children}
           /\ ~IsRaise(ret)
              => /\ call.new_name \in DOMAIN ids
                 /\ ids[call.new_name] = was
                 /\ name # call.new_name => name \notin DOMAIN ids

(* A category with its flag off and two children has been renamed. *)
C28_Witness ==
    /\ pc = "returned"
    /\ call.op = "cat_rename"
    /\ call.ref.s \in DOMAIN old.names
    /\ ~old.names[call.ref.s].multiple
    /\ Cardinality(DOMAIN old.names[call.ref.s].children) = 2
    /\ ret = RetNone
    /\ call.new_name \in DOMAIN ids
    /\ call.ref.s \notin DOMAIN ids

(* C29 (a call that deletes children of one parent): deleting the children *)
(* D of a category the tree has issues one update of that category, whose  *)
(* children are the category's children except D, each with its id, and    *)
(* whose flag is the category's; no delete is issued, and the tree is      *)
(* reloaded afterwards.                                                    *)
C29_DeleteChildrenUpdatesParent ==
    (/\ pc = "returned"
     /\ call.op = "cat_delete_all"
     /\ Len(call.data_list) = 1
     /\ call.data_list[1].dict
     /\ call.data_list[1].name \in DOMAIN old.names)
    => LET x == call.data_list[1]
           was == old.names[x.name]
           left == DOMAIN was.children \ {x.children[j] : j \in DOMAIN x.children}
       IN  /\ Len(reqs) = 2
           /\ reqs[1].verb = "PUT"
           /\ reqs[1].addr = <<was.id>>
           /\ reqs[1].payload[1].name = x.name
           /\ reqs[1].payload[1].multiple = was.multiple
           /\ Len(reqs[1].payload[1].children) = Cardinality(left)
           /\ {reqs[1].payload[1].children[j] : j \in DOMAIN reqs[1].payload[1].children}
              = {KeptChild(x.name, c) : c \in left}
           /\ reqs[2] = CatRequest("GET", <<>>, <<>>)
           /\ ids = TreeOf(categories)
           /\ DOMAIN ids[x.name].children = left

(* One of two children has been deleted from a category with its flag off. *)
C29_Witness ==
    /\ pc = "returned"
    /\ call.op = "cat_delete_all"
    /\ Len(call.data_list) = 1
    /\ call.data_list[1].dict
    /\ call.data_list[1].name \in DOMAIN old.names
    /\ ~old.names[call.data_list[1].name].multiple
    /\ DOMAIN old.names[call.data_list[1].name].children = {"c", "d"}
    /\ DOMAIN ids[call.data_list[1].name].children = {"d"}
    /\ ids[call.data_list[1].name].children["d"]
       = old.names[call.data_list[1].name].children["d"]

(* rename *)

(* What C30 says of a rename(n, m) that has returned: m resolves to the id *)
(* that alone carried n, resolving n raises KeyError, an update addressed  *)
(* to that id was issued, and no create.                                   *)
RenamedInPlace ==
    LET id == CHOOSE i \in Carriers(old.names, call.ref.s) : TRUE
    IN  /\ get_resource_id(names, RefStr(call.new_name)) = RetId(id)
        /\ get_resource_id(names, RefStr(call.ref.s)) = RaiseKeyError
        /\ \E n \in DOMAIN reqs : reqs[n].verb = "PUT" /\ reqs[n].addr = <<RetId(id)>>
        /\ \A n \in DOMAIN reqs : reqs[n].verb # "POST"

(* rename(n, m) has returned normally on a catalog where one id carries n  *)
(* and none carries m.                                                     *)
RenamedUnique ==
    /\ pc = "returned"
    /\ call.op = "rename"
    /\ ret = RetNone
    /\ old.names = old.server
    /\ Cardinality(Carriers(old.names, call.ref.s)) = 1
    /\ Carriers(old.names, call.new_name) = {}

(* C30 as stated: after rename(n, m) has returned normally on a catalog    *)
(* where one id carries n and none carries m, m resolves to the id n       *)
(* resolved to before the call and resolving n raises KeyError; an update  *)
(* addressed to that id was issued, and no create.                         *)
C30_RenameKeepsId_Stated == RenamedUnique => RenamedInPlace

(* C30: the same, for an n that does not read as an integer that is an id  *)
(* of the catalog.                                                         *)
C30_RenameKeepsId ==
    (/\ RenamedUnique
     /\ CanParseInt(call.ref.s) => IntOf(call.ref.s) \notin DOMAIN old.names)
    => RenamedInPlace

(* 'a', carried by one id next to another resource, has been renamed 'b'.  *)
C30_Witness ==
    /\ RenamedUnique
    /\ call.ref.s = "a"
    /\ Cardinality(DOMAIN old.names) = 2
    /\ \E i \in DOMAIN names : old.names[i] = "a" /\ names[i] = "b"
(* get *)

(* C31: for a name that one id of the catalog carries, get(name) issues    *)
(* the request that get(id) issues, the specific endpoint followed by that *)
(* id, and returns what get(id) returns.                                   *)
C31_GetByNameEqualsGetById ==
    (/\ pc = "returned"
     /\ call.op = "get"
     /\ call.ref.t = "str"
     /\ names = server
     /\ Cardinality(Carriers(names, call.ref.s)) = 1)
    => LET id == CHOOSE i \in Carriers(names, call.ref.s) : TRUE
           by_id == get(names, server, RefInt(id))
       IN  /\ reqs = <<Request("GET", <<RetId(id)>>, <<>>, <<>>)>>
           /\ by_id.reqs = reqs
           /\ by_id.ret = ret

(* Credentials store *)

(* The places of the record of stored tokens that hold a case variant of u. *)
StoredUnder(u) == {j \in DOMAIN cred.stored : lower(cred.stored[j].username) = lower(u)}

C33_ClearAllDeletesEveryCategory ==
    (pc = "returned" /\ call.op = "cat_clear_all_in_project" /\ ~IsRaise(ret))
    => /\ \A name \in DOMAIN old.names :
             \E n \in DOMAIN reqs :
                 reqs[n].verb = "DELETE" /\ reqs[n].addr = <<old.names[name].id>>
       /\ categories = <<>>
       /\ ids = EmptyMap

(* Termination of get_mentions *)

(* get_mentions is over: it returned the list, or a page request raised. *)
LoopOver == call.op = "get_mentions" /\ dpc \in {"done", "raised"} /\ fetched # <<>>

(* C34 as stated: get_mentions issues at most min(max_pages, k+1)          *)
(* requests, k the index of the first empty page.                          *)
C34_BoundedRequests_Stated ==
    (call.op = "get_mentions" /\ dpc \in {"loop", "done", "raised"})
    => LET k == FirstEmptyFrom(pages, 0)
       IN  Len(fetched) <= IF max_pages = <<>> THEN k + 1 ELSE Min(max_pages[1], k + 1)

(* The requests of a running or finished get_mentions are within the       *)
(* bound: at most min(max_pages, k+1) - s, with s the start index and k    *)
(* the index of the first empty page at or after s; and without a limit    *)
(* the loop has ended only on an empty page or on a request that raised.   *)
RequestsBounded ==
    (call.op = "get_mentions" /\ dpc \in {"loop", "done", "raised"})
    => LET k == FirstEmptyFrom(pages, StartPage)
           last == fetched[Len(fetched)]
       IN  /\ Len(fetched) <= Max(0, (IF max_pages = <<>> THEN k + 1
                                      ELSE Min(max_pages[1], k + 1)) - StartPage)
           /\ (dpc = "done" /\ max_pages = <<>>)
              => fetched # <<>> /\ PageAt(pages, last) = OkPage(0)
           /\ (dpc = "raised" /\ fetched # <<>>)
              => PageAt(pages, last) \notin {OkPage(n) : n \in 0..MaxPageLen}

(* C34: every get_mentions that entered its loop ends (the server's pages  *)
(* run out, or max_pages is reached), having issued at most                *)
(* min(max_pages, k+1) - s requests, s the start index and k the index of  *)
(* the first empty page at or after s; without a limit it ends only on an  *)
(* empty page or an error.                                                 *)
C34_Terminates ==
    /\ []RequestsBounded
    /\ (dpc = "loop") ~> (dpc \in {"done", "raised"})

(* Without a limit the loop went through three pages with records and      *)
(* ended on the empty one after them.                                      *)
C34_Witness ==
    /\ Retrieved
    /\ max_pages = <<>>
    /\ StartPage = 0
    /\ FirstEmptyFrom(pages, 0) = 3
    /\ Len(fetched) = 4

(* Ambiguous names in upload_all and rename *)

(* The items of a batch whose name more than one id of the catalog carries. *)
AmbiguousItems(nm, data_list) ==
    {n \in DOMAIN data_list : Cardinality(Carriers(nm, data_list[n].name)) > 1}

(* C35: upload_all on a batch with an item whose name more than one id     *)
(* carries, when no item before it raised, raises AmbiguityError with      *)
(* those ids at the first such item, having issued a put or post for no    *)
(* item from that one on; rename of such a name raises AmbiguityError and  *)
(* issues no request.  When the first item raises, the server is as it     *)
(* was.                                                                    *)
C35_AmbiguousNameAborts ==
    /\ (/\ pc = "returned"
        /\ call.op = "upload_all"
        /\ AmbiguousItems(old.names, call.data_list) # {})
       => LET ambiguous == AmbiguousItems(old.names, call.data_list)
              first == CHOOSE n \in ambiguous : \A m \in ambiguous : n <= m
          IN  item >= first
              => /\ item = first
                 /\ ret = AmbiguityError(Carriers(old.names, call.data_list[first].name))
                 /\ Len(SelectSeq(reqs, IsMutation)) <= first - 1
                 /\ first = 1 => server = old.server
                 /\ names = old.names
    /\ (/\ pc = "returned"
        /\ call.op = "rename"
        /\ Cardinality(Carriers(old.names, call.ref.s)) > 1)
       => /\ ret = AmbiguityError(Carriers(old.names, call.ref.s))
          /\ reqs = <<>>
          /\ server = old.server

(* upload_all created the resource of its first item and raised at the     *)
(* second, whose name two ids carry.                                       *)
C35_Witness ==
    /\ pc = "returned"
    /\ call.op = "upload_all"
    /\ AmbiguousItems(old.names, call.data_list) = {2}
    /\ ret.t = "AmbiguityError"
    /\ Len(SelectSeq(reqs, IsMutation)) = 1
    /\ reqs[Len(reqs)].verb = "POST"

(* Stale decisions within a batch *)

(* C36: upload_all of a batch that holds the same name twice (no new_name, *)
(* modify_only off), a name that no id of the catalog carries when the     *)
(* batch starts, issues two creates and no update; after the closing       *)
(* reload two ids carry the name and get_resource_id of it raises          *)
(* AmbiguityError.                                                         *)
C36_SameAbsentNameTwice ==
    (/\ pc = "returned"
     /\ call.op = "upload_all"
     /\ ~IsRaise(ret)
     /\ ~PassedFlag(kind, call.modify_only)
     /\ old.names = old.server
     /\ Len(call.data_list) = 2
     /\ call.data_list[1] = call.data_list[2]
     /\ call.data_list[1].new_name = <<>>
     /\ Carriers(old.names, call.data_list[1].name) = {})
    => LET name == call.data_list[1].name
           mutations == SelectSeq(reqs, IsMutation)
       IN  /\ Len(mutations) = 2
           /\ mutations[1].verb = "POST"
           /\ mutations[2].verb = "POST"
           /\ Cardinality(Carriers(names, name)) = 2
           /\ get_resource_id(names, RefStr(name)) = AmbiguityError(Carriers(names, name))

(* Aborted batches *)

(* The call is an upload_all or delete_all that an exception left while    *)
(* its loop was at an item.                                                *)
AbortedAtItem ==
    /\ pc = "returned"
    /\ IsRaise(ret)
    /\ \/ call.op = "upload_all" /\ item \in 1..Len(call.data_list)
       \/ call.op = "delete_all" /\ item \in 1..Len(call.refs)

(* C37: when upload_all or delete_all is left by an exception raised while *)
(* its loop is at an item, the call has sent no listing request and names  *)
(* is what it was before the call, whatever the earlier items of the batch *)
(* changed on the server.                                                  *)
C37_AbortSkipsReload ==
    AbortedAtItem => (Reloads(reqs) = {} /\ names = old.names)

(* Both calls are left at their second item after the first item changed   *)
(* the server.                                                             *)
C37_Witness ==
    /\ AbortedAtItem
    /\ call.op = "delete_all"
    /\ item = 2
    /\ server # old.server
    /\ names = old.names
    /\ names # server

C37_WitnessUpload ==
    /\ AbortedAtItem
    /\ call.op = "upload_all"
    /\ item = 2
    /\ server # old.server
    /\ names = old.names

(* Existence and resolution *)

(* C38: check_resource_exists(resource) returns True exactly when          *)
(* get_resource_id(resource) returns an id that is a key of names, and     *)
(* returns False for an empty reference (None, "" or 0), for which         *)
(* get_resource_id returns "".                                             *)
C38_ExistsIffResolvesToKey ==
    (pc = "returned" /\ call.op = "check_resource_exists")
    => LET r == get_resource_id(old.names, call.ref)
       IN  /\ (ret = RetBool(TRUE)) <=> (r.t = "id" /\ r.i \in DOMAIN old.names)
           /\ Falsy(call.ref) => (r = RetEmpty /\ ret = RetBool(FALSE))

(* The transport's decision *)

(* The body parsed and its "errors" field is absent or empty. *)
NoErrors(response) ==
    response.parse = "ok" /\ (response.errors = <<>> \/ response.errors[1] = 0)

(* C39: for a response whose body parses, bare_request raises RuntimeError *)
(* exactly when the body's "errors" field is present and non-empty, and    *)
(* returns the body otherwise.  In upload_all, an item whose put or post   *)
(* is answered without errors is recorded in resources under the name of  *)
(* its payload and the loop goes on: the call ends with RuntimeError only  *)
(* at an item whose response did not parse or listed errors, and when no   *)
(* response does, a call that no check of its own ends has sent and        *)
(* recorded every item.                                                    *)
C39_RaisesIffErrorsNonEmpty ==
    /\ (pc = "returned" /\ call.op = "bare_request" /\ call.answers[1].parse = "ok")
       => LET response == call.answers[1]
          IN  /\ (ret = RaiseRuntimeError)
                    <=> (response.errors # <<>> /\ response.errors[1] > 0)
              /\ NoErrors(response) => ret = ResourceInfo(call.listing[1])
    /\ (Uploaded /\ call.answers # <<>>)
       => /\ ret \in {RaiseRuntimeError, RaiseValueError}
             => (item \in 1..Len(call.data_list) /\ ~NoErrors(call.answers[item]))
          /\ \A q \in Mutations(reqs) :
                (q < Len(reqs) \/ ret \notin {RaiseRuntimeError, RaiseValueError})
                => reqs[q].pname[1] \in DOMAIN resources
          /\ (/\ ~IsRaise(ret)
              /\ \A n \in 1..Len(call.data_list) : NoErrors(call.answers[n]))
             => (/\ DOMAIN resources = {call.data_list[n].name :
                                            n \in 1..Len(call.data_list)}
                 /\ item = Len(call.data_list) + 1
                 /\ Cardinality(Mutations(reqs)) = Len(call.data_list))

(* A batch of two whose first response has an empty errors field and whose *)
(* second lists an error: the first item is recorded, the call raises at   *)
(* the second.                                                             *)
C39_Witness ==
    /\ Uploaded
    /\ Len(call.data_list) = 2
    /\ call.answers[1] = Response("ok", <<0>>)
    /\ call.answers[2] = Response("ok", <<1>>)
    /\ ret = RaiseRuntimeError
    /\ item = 2
    /\ DOMAIN resources = {call.data_list[1].name}

====
